---- MODULE Spec2Model ----
(***************************************************************************)
(* Model of the team-battle room (server/src/rooms/TeamBattleRoom.ts).     *)
(* One room is a single-threaded entity: every message handler, every      *)
(* lifetime timer callback and every simulation tick is one atomic action. *)
(*                                                                         *)
(* Numbers are integers: positions in pixels, times in milliseconds.       *)
(* A bullet id is the sender, the millisecond of the shot and a serial     *)
(* that tells apart the objects whose id strings are equal.                *)
(***************************************************************************)
EXTENDS Integers, Sequences, FiniteSets, TLC

(***************************************************************************)
(* Bounds of the model.                                                    *)
(***************************************************************************)
\* lifetime timeouts pending at one time (so also bullets in the list)
MaxBullets == 2
\* game time simulated over a run, in ticks of TickMs
MaxGameTicks == 3
\* game time simulated in the three-client match, in ticks of TickMs
MaxTeamTicks == 2
\* bullets of one salvo
MaxSalvo == 3

(***************************************************************************)
(* Program constants.                                                      *)
(***************************************************************************)
WIN_SCORE == 30
RESPAWN_MS == 3000
PLAYER_HALF_WIDTH == 18
PLAYER_HALF_HEIGHT == 26
RED_SPAWN_X == 200
BLUE_SPAWN_X == 2800
SPAWN_Y == 500
WORLD_MIN_X == -100
WORLD_MAX_X == 3100
FULL_HEALTH == 100
\* shared/GameConstants.ts (SHARED_CONFIG.BULLET), not part of the sources
BULLET_SPEED == 800
BULLET_DAMAGE == 60
BULLET_WIDTH == 8
BULLET_HEIGHT == 4
BULLET_LIFETIME_MS == 3000

\* JavaScript numbers are integers here, with the values that are not finite
\* numbers standing beyond every value a finite computation of the model yields
NaN == 0 - 999999999
\* a field or argument that is absent
Undefined == 0 - 999999998
Infinity == 900000000
NegInfinity == 0 - Infinity
\* isNaN(v): the argument is converted to a number first, undefined to NaN
IsNaN(v) == v = NaN \/ v = Undefined
IsInfinite(v) == v = Infinity \/ v = NegInfinity
IsFinite(v) == NegInfinity < v /\ v < Infinity
\* !v for a number or undefined
Falsy(v) == v = 0 \/ v = NaN \/ v = Undefined

\* a + b
JsAdd(a, b) ==
  IF IsFinite(a) /\ IsFinite(b) THEN a + b
  ELSE IF IsNaN(a) \/ IsNaN(b) THEN NaN
  ELSE IF IsInfinite(a) /\ IsInfinite(b) THEN (IF a = b THEN a ELSE NaN)
  ELSE IF IsInfinite(a) THEN a
  ELSE IF IsInfinite(b) THEN b
  ELSE a + b
\* -a
JsNeg(a) == IF IsNaN(a) THEN NaN ELSE 0 - a
\* a - b
JsSub(a, b) ==
  IF IsFinite(a) /\ IsFinite(b) THEN a - b ELSE JsAdd(a, JsNeg(b))
\* a * b
JsMul(a, b) ==
  IF IsFinite(a) /\ IsFinite(b) THEN a * b
  ELSE IF IsNaN(a) \/ IsNaN(b) THEN NaN
  ELSE IF IsInfinite(a) \/ IsInfinite(b)
       THEN IF a = 0 \/ b = 0 THEN NaN
            ELSE IF (a > 0) = (b > 0) THEN Infinity ELSE NegInfinity
  ELSE a * b
\* a / d for a finite d > 0, to whole units
JsDiv(a, d) == IF IsFinite(a) THEN a \div d ELSE a
\* comparisons: false as soon as a side is NaN
JsLt(a, b) == a < b /\ ~IsNaN(a) /\ ~IsNaN(b)
JsGt(a, b) == JsLt(b, a)
JsLe(a, b) == a <= b /\ ~IsNaN(a) /\ ~IsNaN(b)

NoTeam == "none"
NoPlayer == "nobody"
\* session ids in the order the framework hands them out; none is reused
SessionIds == <<"s1", "s2", "s3">>
Sessions == {SessionIds[k] : k \in 1..Len(SessionIds)}
\* the sessions of a one-against-one match
Duel == {"s1", "s2"}

VARIABLES
  players,      \* state.players: session id -> Player
  order,        \* iteration order of state.players (insertion order)
  bullets,      \* state.bullets
  scores,       \* state.scores
  gameState,    \* state.gameState
  winningTeam,  \* state.winningTeam
  gameTime,     \* state.gameTime
  metadata,     \* the room's metadata
  timers,       \* pending lifetime timeouts of this.clock
  joined,       \* number of sessions that have connected so far
  sent,         \* messages sent or broadcast by the last handler
  hits,         \* hits resolved by the last handler, in order
  respawned,    \* players the respawn loop of the last handler reset
  lastTick,     \* whether the last handler was update, and if so whether it
                \* returned early ("skipped") or simulated ("ran"); else "none"
  sinceKill,    \* per dead player: tick deltas simulated since the kill
  matchEnded,   \* match-ended broadcasts so far
  lastMsg       \* what the last handler was called with, in runs that log it

vars == <<players, order, bullets, scores, gameState, winningTeam, gameTime,
          metadata, timers, joined, sent, hits, respawned, lastTick,
          sinceKill, matchEnded, lastMsg>>

\* lastMsg in a run that keeps no log, and before the first handler of one
\* that does
NoLog == [type |-> "nolog"]
NoMsg == [type |-> "none"]
Log(msg) == lastMsg' = IF lastMsg = NoLog THEN NoLog ELSE msg

\* what a handler other than update leaves in the logs
NoTickLog ==
  /\ sent' = << >>
  /\ hits' = << >>
  /\ respawned' = {}
  /\ lastTick' = "none"

(***************************************************************************)
(* The client (src/systems/MultiplayerCoordinator.ts).  One client is      *)
(* single-threaded: every network callback, every tween callback and every *)
(* frame is one atomic action.  Lengths on the client are in hundredths    *)
(* of a pixel, so that the fractions of the reconciliation have a place.   *)
(***************************************************************************)
VARIABLES
  localPlayerId,             \* this.localPlayerId; NoPlayer while undefined
  remotePlayers,             \* this.remotePlayers: player id -> RemotePlayer
  networkQualityIndicators,  \* this.networkQualityIndicators: its keys
  activeBullets,             \* this.activeBullets: bullet id -> sprite
  localPlayer,               \* this.player, the LocalPlayer
  predictionError,           \* this.predictionError
  lastServerPosition,        \* this.lastServerPosition
  connected,                 \* whether the network session is connected
  pendingPlayers,            \* player-added events the session holds back
  roster,                    \* the ids the session has announced: whether
                             \* each is still in the room
  sprites,                   \* the bullet rectangles the scene has made
  pool,                      \* the local bullet pool of the weapon system
  sceneKey,                  \* the scene that is running
  gameScene,                 \* the running GameScene: its clock (time.now),
                             \* whether its menu is open, and when the
                             \* local player last emitted 'shoot'
  lastEvent                  \* what the last client handler was called with

cvars == <<localPlayerId, remotePlayers, networkQualityIndicators,
           activeBullets, localPlayer, predictionError, lastServerPosition,
           connected, pendingPlayers, roster, sprites, pool, sceneKey,
           gameScene, lastEvent>>

\* a room handler leaves the client alone, a client handler the room
ClientIdle == UNCHANGED cvars
RoomIdle == UNCHANGED vars

(***************************************************************************)
(* Inputs.                                                                 *)
(***************************************************************************)
\* deltaTime values handed to update() by the simulation interval: none
\* elapsed, one long frame, two long frames
TickMs == 1500
Deltas == {0, TickMs, 2 * TickMs}
\* a short frame
ShortMs == 500
\* deltaTime values of a clock gone wrong, next to a good one
ClockDeltas == {TickMs, Undefined, NaN, Infinity, NegInfinity}
\* payloads of "move"
MoveData ==
  { [x |-> 1000, y |-> 500, velocityX |-> -160, velocityY |-> 0, flipX |-> TRUE] }
\* payloads of "dash"
DashData == { [isDashing |-> TRUE] }
\* payloads of "shoot"
ShootData == { [x |-> 600, y |-> 480] }
\* payloads of "shoot" as any client may send them: with fields the room does
\* not ask for, and with a field that is not a number or is absent
ShotData ==
  ShootData \cup
  { [x |-> 600, y |-> 480, velocityX |-> 5000, ownerId |-> "s3",
     ownerTeam |-> "blue"],
    [x |-> NaN, y |-> 480],
    [x |-> 600, y |-> Undefined] }
\* ... and with numbers that are not finite
HostileShotData ==
  ShotData \cup { [x |-> Infinity, y |-> 480], [x |-> 600, y |-> NegInfinity] }
\* payloads of "move" with a field that is not a number, is absent or is not
\* finite
HostileMoveData ==
  MoveData \cup
  { [x |-> NaN, y |-> 500, velocityX |-> 0, velocityY |-> 0, flipX |-> FALSE],
    [x |-> 1000, y |-> Undefined, velocityX |-> 0, velocityY |-> 0,
     flipX |-> FALSE],
    [x |-> 1000, y |-> 500, velocityX |-> Infinity, velocityY |-> 0,
     flipX |-> FALSE] }
\* shots at two heights: one that meets a player, one that flies over
BurstData == ShootData \cup { [x |-> 600, y |-> 100] }

\* shots that end on the platform, on the other spawn and beyond the world
SalvoData ==
  { [x |-> 600, y |-> 310], [x |-> 600, y |-> 480], [x |-> 2900, y |-> 100] }
\* scores a match is observed from: a fresh match, and one kill from the end
StartScores ==
  { [red |-> n, blue |-> n] : n \in {0, WIN_SCORE - 1} }

(***************************************************************************)
(* Helpers.                                                                *)
(***************************************************************************)
\* Math.min, Math.max
Min(a, b) == IF IsNaN(a) \/ IsNaN(b) THEN NaN ELSE IF a < b THEN a ELSE b
Max(a, b) == IF IsNaN(a) \/ IsNaN(b) THEN NaN ELSE IF a > b THEN a ELSE b

\* s with position i removed
RemoveAt(s, i) == SubSeq(s, 1, i - 1) \o SubSeq(s, i + 1, Len(s))

\* the first position of s whose element satisfies the test, 0 if none
FirstIndex(s, Test(_)) ==
  IF \E i \in 1..Len(s) : Test(s[i])
  THEN CHOOSE i \in 1..Len(s) : Test(s[i]) /\ \A j \in 1..(i - 1) : ~Test(s[j])
  ELSE 0

(***************************************************************************)
(* TeamBattleState, Player and Bullet (server/src/rooms/schema), which the *)
(* sources do not hold: modelled from the data model of the specification. *)
(***************************************************************************)
SpawnX(team) == IF team = "red" THEN RED_SPAWN_X ELSE BLUE_SPAWN_X

NewPlayer(id, team) ==
  [id |-> id, name |-> <<"Player", id>>, team |-> team,
   x |-> SpawnX(team), y |-> SPAWN_Y, velocityX |-> 0, velocityY |-> 0,
   flipX |-> FALSE, health |-> FULL_HEALTH, isDead |-> FALSE,
   respawnTimer |-> 0, isDashing |-> FALSE]

NewBullet(id, x, y, velocityX, ownerId, ownerTeam) ==
  [id |-> id, x |-> x, y |-> y, velocityX |-> velocityX,
   ownerId |-> ownerId, ownerTeam |-> ownerTeam]

getTeamCount(ps, team) == Cardinality({id \in DOMAIN ps : ps[id].team = team})

LiveCount(ps, team) ==
  Cardinality({id \in DOMAIN ps : ps[id].team = team /\ ~ps[id].isDead})

\* balancing policy: the team with fewer live players, a tie goes to red
AssignTeam(ps) ==
  IF LiveCount(ps, "blue") < LiveCount(ps, "red") THEN "blue" ELSE "red"

\* a platform rectangle of shared/WorldGeometry.ts
Platforms == { [x |-> 900, y |-> 300, width |-> 200, height |-> 20] }

checkBulletPlatformCollision(b) ==
  \E p \in Platforms :
     /\ JsLt(JsSub(b.x, b.width \div 2), p.x + p.width)
     /\ JsGt(JsAdd(b.x, b.width \div 2), p.x)
     /\ JsLt(JsSub(b.y, b.height \div 2), p.y + p.height)
     /\ JsGt(JsAdd(b.y, b.height \div 2), p.y)

(***************************************************************************)
(* updateRoomMetadata                                                      *)
(***************************************************************************)
\* an updateRoomMetadata that is not told of the end of the match
RoomMetadataStale(ps, gs) ==
  [redCount |-> getTeamCount(ps, "red"),
   blueCount |-> getTeamCount(ps, "blue"),
   gameState |-> IF gs = "ended" THEN "playing" ELSE gs]

RoomMetadata(ps, gs) ==
  [redCount |-> getTeamCount(ps, "red"),
   blueCount |-> getTeamCount(ps, "blue"),
   gameState |-> gs]

(***************************************************************************)
(* The client after the scene has built its coordinator: constructor,      *)
(* setupEventHandlers, and initialize() on a session that has not been     *)
(* told its id yet.                                                        *)
(***************************************************************************)
\* n pixels
Px(n) == n * 100

\* the session id of this client
Me == SessionIds[1]

\* getSpawnPosition of config/GameConfig.ts
getSpawnPosition(team) ==
  [x |-> Px(IF team = "red" THEN 200 ELSE 2800), y |-> Px(500)]

NoEvent == [type |-> "none"]

\* no 'shoot' event has been emitted yet
NoShot == 0 - 1

ClientInit ==
  /\ localPlayerId = NoPlayer
  /\ remotePlayers = << >>
  /\ networkQualityIndicators = {}
  /\ activeBullets = << >>
  /\ localPlayer = [x |-> Px(200), y |-> Px(500), team |-> "red",
                    isDashing |-> FALSE, health |-> 100, isDead |-> FALSE,
                    isCrouching |-> FALSE, lastShootTime |-> 0]
  /\ predictionError = [x |-> 0, y |-> 0]
  /\ lastServerPosition = [x |-> 0, y |-> 0]
  /\ connected = TRUE
  /\ pendingPlayers = << >>
  /\ roster = << >>
  /\ sprites = << >>
  /\ pool = << >>
  /\ sceneKey = "GameScene"
  /\ gameScene = [now |-> 0, menuOpen |-> FALSE, shotAt |-> NoShot]
  /\ lastEvent = NoEvent

(***************************************************************************)
(* Initial state: onCreate, on a room observed from StartScores.           *)
(***************************************************************************)
InitRoom ==
  /\ players = << >>
  /\ order = << >>
  /\ bullets = << >>
  /\ scores \in StartScores
  /\ gameState = "waiting"
  /\ winningTeam = NoTeam
  /\ gameTime = 0
  /\ metadata = RoomMetadata(<< >>, "waiting")
  /\ timers = {}
  /\ joined = 0
  /\ sent = << >>
  /\ hits = << >>
  /\ respawned = {}
  /\ lastTick = "none"
  /\ sinceKill = << >>
  /\ matchEnded = 0
  /\ ClientInit

Init == InitRoom /\ lastMsg = NoLog

(***************************************************************************)
(* onJoin / onLeave                                                        *)
(***************************************************************************)
\* state.addPlayer may start the match ("potential game state change")
onJoin(id, start) ==
  /\ joined < Len(SessionIds)
  /\ id = SessionIds[joined + 1]
  /\ LET team == AssignTeam(players)
         gs == IF gameState = "waiting" /\ start THEN "playing" ELSE gameState
         ps == [i \in DOMAIN players \cup {id} |->
                  IF i = id THEN NewPlayer(id, team) ELSE players[i]]
     IN /\ players' = ps
        /\ order' = Append(order, id)
        /\ gameState' = gs
        /\ sent' = << [type |-> "team-assigned", to |-> id, team |-> team,
                       playerId |-> id, playerName |-> ps[id].name] >>
        /\ metadata' = RoomMetadata(ps, gs)
  /\ joined' = joined + 1
  /\ hits' = << >>
  /\ respawned' = {}
  /\ lastTick' = "none"
  /\ Log([type |-> "join", from |-> id])
  /\ ClientIdle
  /\ UNCHANGED <<bullets, scores, winningTeam, gameTime, timers, sinceKill,
                 matchEnded>>

\* an onLeave that also takes the leaver's bullets out of the list
onLeaveWithBullets(id) ==
  /\ id \in DOMAIN players
  /\ LET ps == [i \in DOMAIN players \ {id} |-> players[i]]
     IN /\ players' = ps
        /\ metadata' = RoomMetadata(ps, gameState)
  /\ order' = SelectSeq(order, LAMBDA i : i # id)
  /\ bullets' = SelectSeq(bullets, LAMBDA b : b.ownerId # id)
  /\ sinceKill' = [i \in DOMAIN sinceKill \ {id} |-> sinceKill[i]]
  /\ NoTickLog
  /\ Log([type |-> "leave", from |-> id])
  /\ ClientIdle
  /\ UNCHANGED <<scores, gameState, winningTeam, gameTime, timers, joined,
                 matchEnded>>

onLeave(id) ==
  /\ id \in DOMAIN players
  /\ LET ps == [i \in DOMAIN players \ {id} |-> players[i]]
     IN /\ players' = ps
        /\ metadata' = RoomMetadata(ps, gameState)
  /\ order' = SelectSeq(order, LAMBDA i : i # id)
  /\ sinceKill' = [i \in DOMAIN sinceKill \ {id} |-> sinceKill[i]]
  /\ NoTickLog
  /\ Log([type |-> "leave", from |-> id])
  /\ ClientIdle
  /\ UNCHANGED <<bullets, scores, gameState, winningTeam, gameTime, timers,
                 joined, matchEnded>>

(***************************************************************************)
(* Message handlers                                                        *)
(***************************************************************************)
\* the "move" handler without the check that the sender is alive
onMoveDead(id, data) ==
  /\ \E k \in 1..joined : id = SessionIds[k]
  /\ players' =
       IF id \in DOMAIN players
       THEN [players EXCEPT ![id].x = data.x, ![id].y = data.y,
                            ![id].velocityX = data.velocityX,
                            ![id].velocityY = data.velocityY,
                            ![id].flipX = data.flipX]
       ELSE players
  /\ NoTickLog
  /\ Log([type |-> "move", from |-> id, data |-> data])
  /\ ClientIdle
  /\ UNCHANGED <<order, bullets, scores, gameState, winningTeam, gameTime,
                 metadata, timers, joined, sinceKill, matchEnded>>

onMove(id, data) ==
  /\ \E k \in 1..joined : id = SessionIds[k]
  /\ players' =
       IF id \in DOMAIN players /\ ~players[id].isDead
       THEN [players EXCEPT ![id].x = data.x, ![id].y = data.y,
                            ![id].velocityX = data.velocityX,
                            ![id].velocityY = data.velocityY,
                            ![id].flipX = data.flipX]
       ELSE players
  /\ NoTickLog
  /\ Log([type |-> "move", from |-> id, data |-> data])
  /\ ClientIdle
  /\ UNCHANGED <<order, bullets, scores, gameState, winningTeam, gameTime,
                 metadata, timers, joined, sinceKill, matchEnded>>

onDash(id, data) ==
  /\ \E k \in 1..joined : id = SessionIds[k]
  /\ players' =
       IF id \in DOMAIN players /\ ~players[id].isDead
       THEN [players EXCEPT ![id].isDashing = data.isDashing]
       ELSE players
  /\ NoTickLog
  /\ Log([type |-> "dash", from |-> id, data |-> data])
  /\ ClientIdle
  /\ UNCHANGED <<order, bullets, scores, gameState, winningTeam, gameTime,
                 metadata, timers, joined, sinceKill, matchEnded>>

\* Date.now() in a bullet id: a stamp no pending timeout carries
Now == CHOOSE n \in 0..Cardinality(timers) :
         \A t \in timers : t.id[2] # n

\* the "shoot" handler without the check that the sender is alive
ShootAcceptedDead(id, data) ==
  /\ id \in DOMAIN players
  /\ gameState = "playing"
  /\ ~(IsNaN(data.x) \/ IsNaN(data.y))

\* whether the "shoot" handler gets as far as pushing a bullet
ShootAccepted(id, data) ==
  /\ id \in DOMAIN players
  /\ ~players[id].isDead
  /\ gameState = "playing"
  /\ ~(IsNaN(data.x) \/ IsNaN(data.y))

\* a velocity that ignores the direction the player faces
ShootVelocityRight(player) == BULLET_SPEED

ShootVelocity(player) ==
  BULLET_SPEED * (IF player.flipX THEN -1 ELSE 1)

\* The bullet id the handler builds is the string sessionId-stamp, here the
\* first two components of the id; the third is the identity of the Bullet
\* object (and of the timeout scheduled with it), which the code never
\* reads: the number of pending timeouts that carry the same string.
IdString(bulletId) == <<bulletId[1], bulletId[2]>>

Serial(id, stamp) ==
  Cardinality({t \in timers : IdString(t.id) = <<id, stamp>>})

\* the "shoot" handler, run while Date.now() returns stamp; the room is
\* observed while at most limit timeouts are pending
ShootUpTo(id, data, stamp, limit) ==
  /\ \E k \in 1..joined : id = SessionIds[k]
  /\ Cardinality(timers) < limit
  /\ IF ShootAccepted(id, data)
     THEN LET bulletId == <<id, stamp, Serial(id, stamp)>>
              bullet == NewBullet(bulletId, data.x, data.y,
                                  ShootVelocity(players[id]), id, players[id].team)
          IN IF IsNaN(bullet.x) \/ IsNaN(bullet.y) \/ IsNaN(bullet.velocityX)
             THEN UNCHANGED <<bullets, timers>>
             ELSE /\ bullets' = Append(bullets, bullet)
                  /\ timers' = timers \cup {[id |-> bulletId,
                                              remaining |-> BULLET_LIFETIME_MS]}
     ELSE UNCHANGED <<bullets, timers>>
  /\ NoTickLog
  /\ Log([type |-> "shoot", from |-> id, data |-> data])
  /\ ClientIdle
  /\ UNCHANGED <<players, order, scores, gameState, winningTeam, gameTime,
                 metadata, joined, sinceKill, matchEnded>>

Shoot(id, data, stamp) == ShootUpTo(id, data, stamp, MaxBullets)

\* a timeout callback that forgets to remove its bullet
BulletTimeoutForget(timer) ==
  /\ timer \in timers
  /\ timer.remaining <= 0
  /\ timers' = timers \ {timer}
  /\ NoTickLog
  /\ Log([type |-> "timeout", id |-> timer.id])
  /\ ClientIdle
  /\ UNCHANGED <<bullets, players, order, scores, gameState, winningTeam,
                 gameTime, metadata, joined, sinceKill, matchEnded>>

\* a shoot handled in a millisecond of its own
onShoot(id, data) == Shoot(id, data, Now)

\* a shoot handled in the same millisecond as an earlier shoot of the same
\* client, no clock tick in between
onShootSameMs(id, data) ==
  \E t \in timers :
     /\ t.id[1] = id
     /\ t.remaining = BULLET_LIFETIME_MS
     /\ Shoot(id, data, t.id[2])

\* the callback given to clock.setTimeout by the "shoot" handler; timeouts
\* scheduled in the same millisecond run in the order they were scheduled
BulletTimeout(timer) ==
  /\ timer \in timers
  /\ timer.remaining <= 0
  /\ \A t \in timers :
        IdString(t.id) = IdString(timer.id) => t.id[3] >= timer.id[3]
  /\ LET index == FirstIndex(bullets,
                     LAMBDA b : IdString(b.id) = IdString(timer.id))
     IN bullets' = IF index # 0 THEN RemoveAt(bullets, index) ELSE bullets
  /\ timers' = timers \ {timer}
  /\ NoTickLog
  /\ Log([type |-> "timeout", id |-> timer.id])
  /\ ClientIdle
  /\ UNCHANGED <<players, order, scores, gameState, winningTeam, gameTime,
                 metadata, joined, sinceKill, matchEnded>>

(***************************************************************************)
(* update(deltaTime): the simulation tick                                  *)
(***************************************************************************)
BULLET_HALF_WIDTH == BULLET_WIDTH \div 2
BULLET_HALF_HEIGHT == BULLET_HEIGHT \div 2

\* update without the gameState guard
TickRunsInAnyState(gs, deltaTime) ==
  ~(Falsy(deltaTime) \/ IsNaN(deltaTime))

\* the early returns of update
TickRuns(gs, deltaTime) ==
  /\ gs = "playing"
  /\ ~(Falsy(deltaTime) \/ IsNaN(deltaTime))

\* the respawn step with one line changed: which, says the parameter
RespawnVariant(player, deltaTime, variant) ==
  IF player.isDead /\ JsGt(player.respawnTimer, 0)
  THEN LET t == IF variant = "stalled" THEN player.respawnTimer
                ELSE JsSub(player.respawnTimer, deltaTime)
           due == IF variant = "late" THEN JsLt(t, 0)
                  ELSE IF variant = "stalled" THEN JsLe(JsSub(t, deltaTime), 0)
                  ELSE JsLe(t, 0)
       IN IF due
          THEN [player EXCEPT !.respawnTimer = t, !.isDead = FALSE,
                              !.health = IF variant = "noheal" THEN @
                                         ELSE FULL_HEALTH,
                              !.x = IF player.team = "red" THEN RED_SPAWN_X
                                                           ELSE BLUE_SPAWN_X,
                              !.y = SPAWN_Y]
          ELSE [player EXCEPT !.respawnTimer = t]
  ELSE player

\* respawn that forgets to restore health
RespawnNoHeal(player, deltaTime) == RespawnVariant(player, deltaTime, "noheal")
\* respawn on t < 0 instead of t <= 0
RespawnLate(player, deltaTime) == RespawnVariant(player, deltaTime, "late")
\* a timer that is tested but never stored back
RespawnStalled(player, deltaTime) == RespawnVariant(player, deltaTime, "stalled")

\* the respawn-timer step for one player
Respawn(player, deltaTime) ==
  IF player.isDead /\ JsGt(player.respawnTimer, 0)
  THEN LET t == JsSub(player.respawnTimer, deltaTime)
       IN IF JsLe(t, 0)
          THEN [player EXCEPT !.respawnTimer = t, !.isDead = FALSE,
                              !.health = FULL_HEALTH,
                              !.x = IF player.team = "red" THEN RED_SPAWN_X
                                                           ELSE BLUE_SPAWN_X,
                              !.y = SPAWN_Y]
          ELSE [player EXCEPT !.respawnTimer = t]
  ELSE player

\* eligibility without the team test
EligibleAnyTeam(player, bullet) ==
  /\ player.id # bullet.ownerId
  /\ ~player.isDead

\* the players a bullet may hit
Eligible(player, bullet) ==
  /\ player.id # bullet.ownerId
  /\ player.team # bullet.ownerTeam
  /\ ~player.isDead

\* the bullet box at the end of its movement only, against the player box
SweptOverlapEndpoint(bullet, bulletPrevX, bulletNextX, player) ==
  LET playerCenterY == JsSub(player.y, PLAYER_HALF_HEIGHT)
      playerLeft == JsSub(player.x, PLAYER_HALF_WIDTH)
      playerRight == JsAdd(player.x, PLAYER_HALF_WIDTH)
      playerTop == JsSub(playerCenterY, PLAYER_HALF_HEIGHT)
      playerBottom == JsAdd(playerCenterY, PLAYER_HALF_HEIGHT)
      bulletTop == JsSub(bullet.y, BULLET_HALF_HEIGHT)
      bulletBottom == JsAdd(bullet.y, BULLET_HALF_HEIGHT)
      bulletLeft == JsSub(bulletNextX, BULLET_HALF_WIDTH)
      bulletRight == JsAdd(bulletNextX, BULLET_HALF_WIDTH)
  IN /\ JsLt(bulletLeft, playerRight)
     /\ JsGt(bulletRight, playerLeft)
     /\ JsLt(bulletTop, playerBottom)
     /\ JsGt(bulletBottom, playerTop)

\* the swept bullet box against the player box
SweptOverlap(bullet, bulletPrevX, bulletNextX, player) ==
  LET playerCenterY == JsSub(player.y, PLAYER_HALF_HEIGHT)
      playerLeft == JsSub(player.x, PLAYER_HALF_WIDTH)
      playerRight == JsAdd(player.x, PLAYER_HALF_WIDTH)
      playerTop == JsSub(playerCenterY, PLAYER_HALF_HEIGHT)
      playerBottom == JsAdd(playerCenterY, PLAYER_HALF_HEIGHT)
      bulletTop == JsSub(bullet.y, BULLET_HALF_HEIGHT)
      bulletBottom == JsAdd(bullet.y, BULLET_HALF_HEIGHT)
      bulletLeft == JsSub(Min(bulletPrevX, bulletNextX), BULLET_HALF_WIDTH)
      bulletRight == JsAdd(Max(bulletPrevX, bulletNextX), BULLET_HALF_WIDTH)
  IN /\ JsLt(bulletLeft, playerRight)
     /\ JsGt(bulletRight, playerLeft)
     /\ JsLt(bulletTop, playerBottom)
     /\ JsGt(bulletBottom, playerTop)

\* the first player, in map order, that the bullet hits; NoPlayer if none
HitTarget(ps, ord, bullet, bulletPrevX, bulletNextX) ==
  LET i == FirstIndex(ord, LAMBDA id :
             Eligible(ps[id], bullet)
             /\ SweptOverlap(bullet, bulletPrevX, bulletNextX, ps[id]))
  IN IF i = 0 THEN NoPlayer ELSE ord[i]

\* the victim after a hit
Damaged(player) ==
  LET health == player.health - BULLET_DAMAGE
  IN IF health <= 0
     THEN [player EXCEPT !.health = 0, !.isDead = TRUE,
                         !.respawnTimer = RESPAWN_MS]
     ELSE [player EXCEPT !.health = health]

\* a kill always credited to red
ScoreKillRed(sc, ownerTeam) == [sc EXCEPT !.red = @ + 1]

\* the scores after a kill by a bullet of ownerTeam
ScoreKill(sc, ownerTeam) ==
  IF ownerTeam = "red" THEN [sc EXCEPT !.red = @ + 1]
                       ELSE [sc EXCEPT !.blue = @ + 1]

\* the win condition with > for >=
WinConditionStrict(sc) == sc.red > WIN_SCORE \/ sc.blue > WIN_SCORE

\* the win condition, checked after every kill
WinCondition(sc) == sc.red >= WIN_SCORE \/ sc.blue >= WIN_SCORE

\* match end that leaves winningTeam as it was
WinnerKept(sc, current) == current

\* the value assigned to winningTeam when the win condition holds
Winner(sc, current) == IF sc.red >= WIN_SCORE THEN "red" ELSE "blue"

\* the messages of a kill: player-killed, then match-ended if the match is won
KillMessages(ps, sc, bullet, victim, won, winner) ==
  << [type |-> "player-killed", to |-> "all", killerId |-> bullet.ownerId,
      victimId |-> victim.id,
      killerName |-> IF bullet.ownerId \in DOMAIN ps
                     THEN ps[bullet.ownerId].name ELSE "Unknown",
      victimName |-> victim.name] >>
  \o IF won THEN << [type |-> "match-ended", to |-> "all",
                     winningTeam |-> winner, scores |-> sc] >>
            ELSE << >>

\* hit resolution of one bullet on player pid
ResolveHit(st, bullet, pid) ==
  LET before == st.players[pid]
      victim == Damaged(before)
      killed == victim.isDead
      ps == [st.players EXCEPT ![pid] = victim]
      sc == IF killed THEN ScoreKill(st.scores, bullet.ownerTeam) ELSE st.scores
      won == killed /\ WinCondition(sc)
      gs == IF won THEN "ended" ELSE st.gameState
      wt == IF won THEN Winner(sc, st.winningTeam) ELSE st.winningTeam
  IN [st EXCEPT
        !.players = ps,
        !.scores = sc,
        !.gameState = gs,
        !.winningTeam = wt,
        !.metadata = IF won THEN RoomMetadata(ps, gs) ELSE @,
        !.matchEnded = IF won THEN @ + 1 ELSE @,
        !.sent = IF killed
                 THEN @ \o KillMessages(ps, sc, bullet, victim, won, wt)
                 ELSE @,
        !.hits = Append(@, [bullet |-> bullet.id, ownerId |-> bullet.ownerId,
                            ownerTeam |-> bullet.ownerTeam, victimId |-> pid,
                            victimTeam |-> before.team,
                            healthBefore |-> before.health,
                            wasDead |-> before.isDead,
                            scoresBefore |-> st.scores,
                            scoresAfter |-> sc,
                            winnerBefore |-> st.winningTeam,
                            winnerAfter |-> wt,
                            sentBefore |-> Len(st.sent),
                            sentAfter |-> Len(st.sent)
                                          + (IF killed THEN 1 ELSE 0)
                                          + (IF won THEN 1 ELSE 0)])]

\* a loop body that does not mark the bullet that hit for removal
BulletStepKeep(st, ord, index, deltaTime) ==
  LET bullet == st.bullets[index]
  IN IF IsNaN(bullet.x) \/ IsNaN(bullet.velocityX)
     THEN [st EXCEPT !.toRemove = Append(@, index)]
     ELSE
       LET movement == JsDiv(JsMul(bullet.velocityX, deltaTime), 1000)
           bulletPrevX == bullet.x
           bulletNextX == JsAdd(bullet.x, movement)
           target == HitTarget(st.players, ord, bullet, bulletPrevX, bulletNextX)
       IN IF target # NoPlayer
          THEN ResolveHit(st, bullet, target)
          ELSE
            LET platformHit ==
                  checkBulletPlatformCollision(
                    [x |-> bulletNextX, y |-> bullet.y,
                     width |-> BULLET_WIDTH, height |-> BULLET_HEIGHT])
                gone == platformHit \/ JsLt(bulletNextX, WORLD_MIN_X)
                                    \/ JsGt(bulletNextX, WORLD_MAX_X)
            IN [st EXCEPT !.bullets[index].x = bulletNextX,
                          !.toRemove = IF gone THEN Append(@, index) ELSE @]

\* the body of bullets.forEach for the bullet at position index
BulletStep(st, ord, index, deltaTime) ==
  LET bullet == st.bullets[index]
  IN IF IsNaN(bullet.x) \/ IsNaN(bullet.velocityX)
     THEN [st EXCEPT !.toRemove = Append(@, index)]
     ELSE
       LET movement == JsDiv(JsMul(bullet.velocityX, deltaTime), 1000)
           bulletPrevX == bullet.x
           bulletNextX == JsAdd(bullet.x, movement)
           target == HitTarget(st.players, ord, bullet, bulletPrevX, bulletNextX)
       IN IF target # NoPlayer
          THEN [ResolveHit(st, bullet, target) EXCEPT !.toRemove = Append(@, index)]
          ELSE
            LET platformHit ==
                  checkBulletPlatformCollision(
                    [x |-> bulletNextX, y |-> bullet.y,
                     width |-> BULLET_WIDTH, height |-> BULLET_HEIGHT])
                gone == platformHit \/ JsLt(bulletNextX, WORLD_MIN_X)
                                    \/ JsGt(bulletNextX, WORLD_MAX_X)
            IN [st EXCEPT !.bullets[index].x = bulletNextX,
                          !.toRemove = IF gone THEN Append(@, index) ELSE @]

RECURSIVE BulletLoop(_, _, _, _)
\* bullets.forEach from position index on
BulletLoop(st, ord, index, deltaTime) ==
  IF index > Len(st.bullets) THEN st
  ELSE BulletLoop(BulletStep(st, ord, index, deltaTime), ord, index + 1, deltaTime)

RECURSIVE SpliceAscending(_, _)
\* a removal that splices the lowest index first
SpliceAscending(bs, indices) ==
  IF indices = {} THEN bs
  ELSE LET index == CHOOSE i \in indices : \A j \in indices : j >= i
       IN SpliceAscending(IF index >= 1 /\ index <= Len(bs)
                          THEN RemoveAt(bs, index) ELSE bs,
                          indices \ {index})

RECURSIVE SpliceAll(_, _)
\* sort the indices descending, drop duplicates, splice each out
SpliceAll(bs, indices) ==
  IF indices = {} THEN bs
  ELSE LET index == CHOOSE i \in indices : \A j \in indices : j <= i
       IN SpliceAll(IF index >= 1 /\ index <= Len(bs) THEN RemoveAt(bs, index)
                                                       ELSE bs,
                    indices \ {index})

\* the room state after update(deltaTime)
update(deltaTime) ==
  LET st0 == [players |-> players, bullets |-> bullets, scores |-> scores,
              gameState |-> gameState, winningTeam |-> winningTeam,
              gameTime |-> gameTime, metadata |-> metadata,
              matchEnded |-> matchEnded, sent |-> << >>, hits |-> << >>,
              respawned |-> {}, toRemove |-> << >>]
  IN IF ~TickRuns(gameState, deltaTime) THEN st0
     ELSE
       LET ps == [id \in DOMAIN players |-> Respawn(players[id], deltaTime)]
           st1 == [st0 EXCEPT
                     !.gameTime = JsAdd(@, deltaTime),
                     !.players = ps,
                     !.respawned = {id \in DOMAIN players :
                                      \/ ps[id].isDead # players[id].isDead
                                      \/ ps[id].health # players[id].health
                                      \/ ps[id].x # players[id].x
                                      \/ ps[id].y # players[id].y}]
           st2 == BulletLoop(st1, order, 1, deltaTime)
       IN [st2 EXCEPT !.bullets =
             SpliceAll(@, {st2.toRemove[k] : k \in 1..Len(st2.toRemove)})]

\* the time the room's clock advances by when it hands out deltaTime
Elapsed(deltaTime) == IF IsFinite(deltaTime) THEN deltaTime ELSE 0

\* the clock's part of one firing of the simulation interval: the pending
\* timeouts come closer; the match is observed until gameTime reaches horizon
ClockTick(deltaTime, horizon) ==
  /\ (TickRuns(gameState, deltaTime) /\ IsFinite(deltaTime)) =>
       /\ IsFinite(gameTime)
       /\ gameTime + deltaTime <= horizon
  /\ timers' = {[t EXCEPT !.remaining = Max(0, @ - Elapsed(deltaTime))] :
                 t \in timers}
  /\ lastTick' = IF TickRuns(gameState, deltaTime) THEN "ran" ELSE "skipped"

\* one firing of the simulation interval: the clock advances, then update runs
TickWithin(deltaTime, horizon) ==
  /\ ClockTick(deltaTime, horizon)
  /\ \E st \in {update(deltaTime)} :
        /\ players' = st.players
        /\ bullets' = st.bullets
        /\ scores' = st.scores
        /\ gameState' = st.gameState
        /\ winningTeam' = st.winningTeam
        /\ gameTime' = st.gameTime
        /\ metadata' = st.metadata
        /\ matchEnded' = st.matchEnded
        /\ sent' = st.sent
        /\ hits' = st.hits
        /\ respawned' = st.respawned
        /\ sinceKill' =
             LET killedNow == {st.hits[k].victimId : k \in 1..Len(st.hits)}
                 ran == TickRuns(gameState, deltaTime)
             IN [id \in {i \in DOMAIN players : st.players[i].isDead} |->
                   IF id \in killedNow THEN 0
                   ELSE IF ran THEN JsAdd(sinceKill[id], deltaTime)
                   ELSE sinceKill[id]]
  /\ Log([type |-> "tick", deltaTime |-> deltaTime])
  /\ ClientIdle
  /\ UNCHANGED <<order, joined>>

Tick(deltaTime) == TickWithin(deltaTime, MaxGameTicks * TickMs)

(***************************************************************************)
(* The room                                                                *)
(***************************************************************************)
\* a one-against-one match, every tick with a positive delta
Next ==
  \/ \E id \in Duel, start \in BOOLEAN : onJoin(id, start)
  \/ \E id \in Duel : onLeave(id)
  \/ \E id \in Duel, data \in MoveData : onMove(id, data)
  \/ \E id \in Duel, data \in ShootData : onShoot(id, data)
  \/ \E timer \in timers : BulletTimeout(timer)
  \/ \E deltaTime \in Deltas \ {0} : Tick(deltaTime)

Spec == Init /\ [][Next]_vars

\* a match of three clients that stay connected, ticking at a steady rate;
\* the first client, a teammate of the third, does not shoot
NextTeam ==
  \/ \E id \in Sessions, start \in BOOLEAN : onJoin(id, start)
  \/ \E id \in Sessions, data \in MoveData : onMove(id, data)
  \/ \E id \in Sessions \ {SessionIds[1]}, data \in ShootData :
        onShoot(id, data)
  \/ \E timer \in timers : BulletTimeout(timer)
  \/ /\ gameState = "playing" => gameTime + TickMs <= MaxTeamTicks * TickMs
     /\ Tick(TickMs)

SpecTeam == Init /\ [][NextTeam]_vars

\* a one-against-one match in a fresh room, with every message the room
\* handles and every tick a simulating one; the second client does the shooting
InitFresh == Init /\ scores = [red |-> 0, blue |-> 0]

NextAll ==
  \/ \E id \in Duel, start \in BOOLEAN : onJoin(id, start)
  \/ \E id \in Duel : onLeave(id)
  \/ \E id \in Duel, data \in MoveData : onMove(id, data)
  \/ \E id \in Duel, data \in DashData : onDash(id, data)
  \/ \E data \in ShootData : onShoot(SessionIds[2], data)
  \/ \E timer \in timers : BulletTimeout(timer)
  \/ \E deltaTime \in Deltas \ {0} : Tick(deltaTime)

SpecAll == InitFresh /\ [][NextAll]_vars

\* a one-against-one match of clients that stay connected, in a fresh room,
\* ticked by short frames and by stalls of two long frames
NextFrames ==
  \/ \E id \in Duel, start \in BOOLEAN : onJoin(id, start)
  \/ \E id \in Duel, data \in MoveData : onMove(id, data)
  \/ \E id \in Duel, data \in ShootData : onShoot(id, data)
  \/ \E timer \in timers : BulletTimeout(timer)
  \/ \E deltaTime \in {ShortMs, 2 * TickMs} : Tick(deltaTime)

SpecFrames == InitFresh /\ [][NextFrames]_vars

\* a fresh room whose runs log what each handler was called with
InitLogged ==
  /\ InitRoom
  /\ scores = [red |-> 0, blue |-> 0]
  /\ lastMsg = NoMsg

\* a one-against-one match of clients that stay connected, update being
\* called with whatever deltaTime
NextClock ==
  \/ \E id \in Duel, start \in BOOLEAN : onJoin(id, start)
  \/ \E id \in Duel, data \in MoveData : onMove(id, data)
  \/ \E id \in Duel, data \in ShootData : onShoot(id, data)
  \/ \E timer \in timers : BulletTimeout(timer)
  \/ \E deltaTime \in ClockDeltas : Tick(deltaTime)

SpecClock == InitLogged /\ [][NextClock]_vars

\* a short one-against-one match in which clients shoot with whatever payload,
\* at any time, also after they died or left; only the first client moves
NextShots ==
  \/ \E id \in Duel, start \in BOOLEAN : onJoin(id, start)
  \/ \E id \in Duel : onLeave(id)
  \/ \E data \in MoveData : onMove(SessionIds[1], data)
  \/ \E id \in Duel, data \in ShotData : onShoot(id, data)
  \/ \E timer \in timers : BulletTimeout(timer)
  \/ /\ gameState = "playing" => gameTime + TickMs <= MaxTeamTicks * TickMs
     /\ Tick(TickMs)

SpecShots == InitLogged /\ [][NextShots]_vars

\* a short match with moves and shots whose numbers are not finite
NextHostile ==
  \/ \E id \in Duel, start \in BOOLEAN : onJoin(id, start)
  \/ \E id \in Duel, data \in HostileMoveData : onMove(id, data)
  \/ \E id \in Duel, data \in HostileShotData : onShoot(id, data)
  \/ \E timer \in timers : BulletTimeout(timer)
  \/ /\ gameState = "playing" => gameTime + TickMs <= MaxTeamTicks * TickMs
     /\ Tick(TickMs)

SpecHostile == InitLogged /\ [][NextHostile]_vars

\* a short one-against-one match in which the first client may fire twice in
\* one millisecond
NextBurst ==
  \/ \E id \in Duel, start \in BOOLEAN : onJoin(id, start)
  \/ \E id \in Duel, data \in MoveData : onMove(id, data)
  \/ \E data \in BurstData : onShoot(SessionIds[1], data)
  \/ \E data \in BurstData : onShootSameMs(SessionIds[1], data)
  \/ \E timer \in timers : BulletTimeout(timer)
  \/ /\ gameState = "playing" => gameTime + TickMs <= MaxTeamTicks * TickMs
     /\ Tick(TickMs)

SpecBurst == InitLogged /\ [][NextBurst]_vars

\* A one-against-one match observed long enough for every bullet to outlive
\* its lifetime: the first client shoots as long as BULLET_LIFETIME_MS of the
\* observation remain.  The simulation interval keeps firing, so the clock
\* keeps advancing, and a timeout that is due runs.
LongRun == (MaxGameTicks + 1) * TickMs

NextFlight ==
  \/ \E id \in Duel, start \in BOOLEAN : onJoin(id, start)
  \/ \E data \in MoveData : onMove(SessionIds[2], data)
  \/ \E data \in BurstData :
        /\ gameTime + BULLET_LIFETIME_MS <= LongRun
        /\ onShoot(SessionIds[1], data)
  \/ \E timer \in timers : BulletTimeout(timer)
  \/ TickWithin(TickMs, LongRun)
  \/ TickWithin(0, LongRun)

SpecFlight ==
  /\ Init
  /\ [][NextFlight]_vars
  /\ WF_<<timers, lastTick>>(ClockTick(TickMs, LongRun))
  /\ WF_vars(\E timer \in timers : BulletTimeout(timer))

\* a short one-against-one match in which clients move and dash at any time,
\* also after they died or left; only the first client shoots
NextMoves ==
  \/ \E id \in Duel, start \in BOOLEAN : onJoin(id, start)
  \/ \E id \in Duel : onLeave(id)
  \/ \E id \in Duel, data \in MoveData : onMove(id, data)
  \/ \E id \in Duel, data \in DashData : onDash(id, data)
  \/ \E data \in ShootData : onShoot(SessionIds[1], data)
  \/ \E timer \in timers : BulletTimeout(timer)
  \/ /\ gameState = "playing" => gameTime + TickMs <= MaxTeamTicks * TickMs
     /\ Tick(TickMs)

SpecMoves == InitLogged /\ [][NextMoves]_vars

\* a one-against-one match in which the first client fires a salvo and the
\* simulation runs in short steps: bullets leave the list in the middle of
\* it, at its ends and several at a time
NextSplice ==
  \/ \E id \in Duel, start \in BOOLEAN : onJoin(id, start)
  \/ \E data \in SalvoData : ShootUpTo(SessionIds[1], data, Now, MaxSalvo)
  \/ Tick(ShortMs)

SpecSplice == InitFresh /\ [][NextSplice]_vars

(***************************************************************************)
(* The client's handlers of the session's events                           *)
(***************************************************************************)
\* sprites the model follows at one time
MaxSprites == 2

\* the other clients this client hears of
Others == {SessionIds[2], SessionIds[3]}

\* PlayerData of each player, as the session reports it when it is added ...
PlayerDataOf(id) ==
  [id |-> id, team |-> IF id = SessionIds[2] THEN "blue" ELSE "red",
   x |-> Px(IF id = SessionIds[2] THEN 2800 ELSE 200), y |-> Px(500)]
\* ... and when it has changed
PlayerUpdateOf(id) == [PlayerDataOf(id) EXCEPT !.x = Px(1000)]

\* payloads of "team-assigned": the room names this client by its session id
TeamAssignedData ==
  { [playerId |-> Me, team |-> team] : team \in {"red", "blue"} }

\* the players in the room, as far as the session has told; a session id is
\* not used twice
Present == {id \in DOMAIN roster : roster[id]}

\* new RemotePlayer(scene, id, x, y, team, name)
NewRemotePlayer(p) == [id |-> p.id, x |-> p.x, y |-> p.y, team |-> p.team]

\* m without key k
Without(m, k) == [i \in DOMAIN m \ {k} |-> m[i]]

\* the "player-added" handler on the maps st while localPlayerId is lid
playerAdded(st, lid, p) ==
  IF lid = NoPlayer THEN st
  ELSE IF p.id = lid \/ p.id \in DOMAIN st.remotePlayers THEN st
  ELSE [remotePlayers |-> st.remotePlayers @@ (p.id :> NewRemotePlayer(p)),
        networkQualityIndicators |-> st.networkQualityIndicators \cup {p.id}]

\* The session (network/NetworkManager.ts, which the sources do not hold)
\* holds back the player-added events it emitted before the local id was
\* known and emits them again when asked to process the pending players.
PendingToReplay(lid) == pendingPlayers

RECURSIVE Replay(_, _, _)
\* the listeners run on each event of the sequence, in order
Replay(st, lid, events) ==
  IF events = << >> THEN st
  ELSE Replay(playerAdded(st, lid, Head(events)), lid, Tail(events))

\* what a client handler leaves alone unless it says otherwise
Maps == [remotePlayers |-> remotePlayers,
         networkQualityIndicators |-> networkQualityIndicators]

SetMaps(st) ==
  /\ remotePlayers' = st.remotePlayers
  /\ networkQualityIndicators' = st.networkQualityIndicators

\* LocalPlayer.setPosition: the place, and the movement state made anew
setPosition(lp, x, y) ==
  [lp EXCEPT !.x = x, !.y = y, !.isDashing = FALSE, !.isCrouching = FALSE,
             !.lastShootTime = 0]

\* a "team-assigned" handler that does not ask for the pending players
onTeamAssignedNoReplay(data) ==
  /\ connected
  /\ localPlayerId = NoPlayer
  /\ localPlayerId' = data.playerId
  /\ localPlayer' = setPosition([localPlayer EXCEPT !.team = data.team],
                                getSpawnPosition(data.team).x,
                                getSpawnPosition(data.team).y)
  /\ pendingPlayers' = << >>
  /\ lastEvent' = [type |-> "team-assigned", data |-> data]
  /\ RoomIdle
  /\ UNCHANGED gameScene
  /\ UNCHANGED <<remotePlayers, networkQualityIndicators, activeBullets,
                 predictionError, lastServerPosition, connected, roster,
                 sprites, pool, sceneKey>>

\* on("team-assigned"); the room sends it once, to the client that joined
onTeamAssigned(data) ==
  /\ connected
  /\ localPlayerId = NoPlayer
  /\ localPlayerId' = data.playerId
  /\ localPlayer' = setPosition([localPlayer EXCEPT !.team = data.team],
                                getSpawnPosition(data.team).x,
                                getSpawnPosition(data.team).y)
  /\ SetMaps(Replay(Maps, data.playerId, PendingToReplay(data.playerId)))
  /\ pendingPlayers' = << >>
  /\ lastEvent' = [type |-> "team-assigned", data |-> data]
  /\ RoomIdle
  /\ UNCHANGED gameScene
  /\ UNCHANGED <<activeBullets, predictionError, lastServerPosition,
                 connected, roster, sprites, pool, sceneKey>>

\* on("player-added"), for a player the session has not announced yet
onPlayerAdded(p) ==
  /\ connected
  /\ p.id \notin DOMAIN roster
  /\ roster' = roster @@ (p.id :> TRUE)
  /\ pendingPlayers' = IF localPlayerId = NoPlayer
                         THEN Append(pendingPlayers, p) ELSE pendingPlayers
  /\ SetMaps(playerAdded(Maps, localPlayerId, p))
  /\ lastEvent' = [type |-> "player-added", data |-> p]
  /\ RoomIdle
  /\ UNCHANGED gameScene
  /\ UNCHANGED <<localPlayerId, activeBullets, localPlayer, predictionError,
                 lastServerPosition, connected, sprites, pool, sceneKey>>

\* on("player-removed"), for another client that has left
onPlayerRemoved(playerId) ==
  /\ connected
  /\ playerId \in Present \ {Me}
  /\ roster' = [roster EXCEPT ![playerId] = FALSE]
  /\ IF playerId \in DOMAIN remotePlayers
     THEN /\ remotePlayers' = Without(remotePlayers, playerId)
          /\ networkQualityIndicators' = networkQualityIndicators \ {playerId}
     ELSE UNCHANGED <<remotePlayers, networkQualityIndicators>>
  /\ lastEvent' = [type |-> "player-removed", data |-> playerId]
  /\ RoomIdle
  /\ UNCHANGED gameScene
  /\ UNCHANGED <<localPlayerId, activeBullets, localPlayer, predictionError,
                 lastServerPosition, connected, pendingPlayers, sprites, pool,
                 sceneKey>>

\* on("player-updated"), for a player the session has announced
onPlayerUpdated(p) ==
  /\ connected
  /\ p.id \in Present
  /\ remotePlayers' =
       IF p.id \in DOMAIN remotePlayers
       THEN [remotePlayers EXCEPT ![p.id].x = p.x, ![p.id].y = p.y]
       ELSE IF p.id # localPlayerId
            THEN remotePlayers @@ (p.id :> NewRemotePlayer(p))
            ELSE remotePlayers
  /\ lastEvent' = [type |-> "player-updated", data |-> p]
  /\ RoomIdle
  /\ UNCHANGED gameScene
  /\ UNCHANGED <<localPlayerId, networkQualityIndicators, activeBullets,
                 localPlayer, predictionError, lastServerPosition, connected,
                 pendingPlayers, roster, sprites, pool, sceneKey>>

\* payloads of "bullet-added" and "bullet-removed": a bullet of another
\* client, one of this client, and one the room gave the id of the first
BulletDataSet ==
  { [id |-> "b1", ownerId |-> SessionIds[2], x |-> Px(2700), y |-> Px(480),
     velocityX |-> 0 - BULLET_SPEED],
    [id |-> "b1", ownerId |-> SessionIds[2], x |-> Px(2700), y |-> Px(100),
     velocityX |-> 0 - BULLET_SPEED],
    [id |-> "b2", ownerId |-> Me, x |-> Px(600), y |-> Px(480),
     velocityX |-> BULLET_SPEED] }

\* scene.add.rectangle with its tween
NewSprite(bullet) ==
  [id |-> bullet.id, ownerId |-> bullet.ownerId, x |-> bullet.x,
   y |-> bullet.y, tween |-> "running", destroyed |-> 0, impacts |-> 0]

\* on("bullet-added")
onBulletAdded(bullet) ==
  /\ connected
  /\ Len(sprites) < MaxSprites
  /\ IF bullet.ownerId # localPlayerId
     THEN /\ sprites' = Append(sprites, NewSprite(bullet))
          /\ activeBullets' =
               [i \in DOMAIN activeBullets \cup {bullet.id} |->
                  IF i = bullet.id THEN Len(sprites) + 1 ELSE activeBullets[i]]
     ELSE UNCHANGED <<sprites, activeBullets>>
  /\ lastEvent' = [type |-> "bullet-added", data |-> bullet]
  /\ RoomIdle
  /\ UNCHANGED gameScene
  /\ UNCHANGED <<localPlayerId, remotePlayers, networkQualityIndicators,
                 localPlayer, predictionError, lastServerPosition, connected,
                 pendingPlayers, roster, pool, sceneKey>>

\* the tween's onComplete, LIFETIME_MS of scene time after it was added
onComplete(k) ==
  /\ sceneKey = "GameScene"
  /\ k \in 1..Len(sprites)
  /\ sprites[k].tween = "running"
  /\ sprites' = [sprites EXCEPT ![k].tween = "complete",
                                ![k].destroyed = @ + 1]
  /\ activeBullets' = Without(activeBullets, sprites[k].id)
  /\ lastEvent' = [type |-> "tween-complete", data |-> k]
  /\ RoomIdle
  /\ UNCHANGED gameScene
  /\ UNCHANGED <<localPlayerId, remotePlayers, networkQualityIndicators,
                 localPlayer, predictionError, lastServerPosition, connected,
                 pendingPlayers, roster, pool, sceneKey>>

\* the weapon system fires a bullet of the local pool
Fire(x) ==
  /\ sceneKey = "GameScene"
  /\ pool = << >>
  /\ pool' = << [x |-> x, isActive |-> TRUE, impacts |-> 0] >>
  /\ lastEvent' = [type |-> "fire", data |-> x]
  /\ RoomIdle
  /\ UNCHANGED gameScene
  /\ UNCHANGED <<localPlayerId, remotePlayers, networkQualityIndicators,
                 activeBullets, localPlayer, predictionError,
                 lastServerPosition, connected, pendingPlayers, roster,
                 sprites, sceneKey>>

\* |a|
Abs(a) == IF a < 0 THEN 0 - a ELSE a

\* the first active bullet of the pool within 50 px of x, 0 if none
PoolMatch(x) ==
  FirstIndex(pool, LAMBDA b : b.isActive /\ Abs(b.x - x) < Px(50))

\* a "bullet-removed" handler that forgets to stop tracking the bullet
onBulletRemovedKeep(bullet) ==
  /\ connected
  /\ IF bullet.id \in DOMAIN activeBullets
     THEN LET k == activeBullets[bullet.id]
          IN /\ sprites' = [sprites EXCEPT
                              ![k].tween = IF @ = "running" THEN "stopped" ELSE @,
                              ![k].impacts = @ + 1,
                              ![k].destroyed = @ + 1]
             /\ UNCHANGED activeBullets
     ELSE UNCHANGED <<sprites, activeBullets>>
  /\ pool' =
       IF bullet.ownerId = localPlayerId /\ PoolMatch(bullet.x) # 0
       THEN [pool EXCEPT ![PoolMatch(bullet.x)].isActive = FALSE,
                         ![PoolMatch(bullet.x)].impacts = @ + 1]
       ELSE pool
  /\ lastEvent' = [type |-> "bullet-removed", data |-> bullet]
  /\ RoomIdle
  /\ UNCHANGED gameScene
  /\ UNCHANGED <<localPlayerId, remotePlayers, networkQualityIndicators,
                 localPlayer, predictionError, lastServerPosition, connected,
                 pendingPlayers, roster, sceneKey>>

\* on("bullet-removed")
onBulletRemoved(bullet) ==
  /\ connected
  /\ IF bullet.id \in DOMAIN activeBullets
     THEN LET k == activeBullets[bullet.id]
          IN /\ sprites' = [sprites EXCEPT
                              ![k].tween = IF @ = "running" THEN "stopped" ELSE @,
                              ![k].impacts = @ + 1,
                              ![k].destroyed = @ + 1]
             /\ activeBullets' = Without(activeBullets, bullet.id)
     ELSE UNCHANGED <<sprites, activeBullets>>
  /\ pool' =
       IF bullet.ownerId = localPlayerId /\ PoolMatch(bullet.x) # 0
       THEN [pool EXCEPT ![PoolMatch(bullet.x)].isActive = FALSE,
                         ![PoolMatch(bullet.x)].impacts = @ + 1]
       ELSE pool
  /\ lastEvent' = [type |-> "bullet-removed", data |-> bullet]
  /\ RoomIdle
  /\ UNCHANGED gameScene
  /\ UNCHANGED <<localPlayerId, remotePlayers, networkQualityIndicators,
                 localPlayer, predictionError, lastServerPosition, connected,
                 pendingPlayers, roster, sceneKey>>

\* Starting another scene shuts this one down: its tweens are removed and
\* its display objects destroyed.
Shutdown(sp) ==
  [k \in 1..Len(sp) |->
     [sp[k] EXCEPT !.tween = IF @ = "running" THEN "stopped" ELSE @,
                   !.destroyed = IF @ = 0 THEN 1 ELSE @]]

\* leaveMultiplayer, the callback of the leave button of the HUD
leaveMultiplayer ==
  /\ sceneKey = "GameScene"
  /\ connected' = FALSE
  /\ remotePlayers' = << >>
  /\ localPlayer' = [localPlayer EXCEPT !.team = "red"]
  /\ networkQualityIndicators' = {}
  /\ sprites' = Shutdown(sprites)
  /\ sceneKey' = "LobbyScene"
  /\ lastEvent' = [type |-> "leave"]
  /\ RoomIdle
  /\ UNCHANGED gameScene
  /\ UNCHANGED <<localPlayerId, activeBullets, predictionError,
                 lastServerPosition, pendingPlayers, roster, pool>>

(***************************************************************************)
(* Prediction and reconciliation of the local player                       *)
(***************************************************************************)
\* errorMagnitude > 5
DEAD_BAND == 5
\* snapThreshold, not dashing and dashing
SNAP_THRESHOLD == 100
SNAP_THRESHOLD_DASHING == 300
\* reconciliationSpeed, in tenths
RECONCILIATION_TENTHS == 3
\* errors under a tenth of a pixel are cleared: their bound in hundredths
TINY == 10

\* Math.sqrt(x * x + y * y) > px, on hundredths of a pixel
MagnitudeExceeds(e, px) ==
  \/ Abs(e.x) > Px(px)
  \/ Abs(e.y) > Px(px)
  \/ e.x * e.x + e.y * e.y > Px(px) * Px(px)

\* a reconciliation whose dead band ends just under 5 px
handleServerReconciliationStrict(lp, serverPos) ==
  LET error == [x |-> serverPos.x - lp.x, y |-> serverPos.y - lp.y]
      snapThreshold == IF lp.isDashing THEN SNAP_THRESHOLD_DASHING
                                       ELSE SNAP_THRESHOLD
      big == \/ MagnitudeExceeds(error, DEAD_BAND)
             \/ error.x * error.x + error.y * error.y
                  = Px(DEAD_BAND) * Px(DEAD_BAND)
  IN IF big
     THEN IF MagnitudeExceeds(error, snapThreshold)
          THEN [player |-> setPosition(lp, serverPos.x, serverPos.y),
                predictionError |-> [x |-> 0, y |-> 0],
                lastServerPosition |-> serverPos]
          ELSE [player |-> lp, predictionError |-> error,
                lastServerPosition |-> serverPos]
     ELSE [player |-> lp, predictionError |-> [x |-> 0, y |-> 0],
           lastServerPosition |-> lastServerPosition]

\* a reconciliation that snaps at 100 px also while dashing
handleServerReconciliationNoDash(lp, serverPos) ==
  LET error == [x |-> serverPos.x - lp.x, y |-> serverPos.y - lp.y]
  IN IF MagnitudeExceeds(error, DEAD_BAND)
     THEN IF MagnitudeExceeds(error, SNAP_THRESHOLD)
          THEN [player |-> setPosition(lp, serverPos.x, serverPos.y),
                predictionError |-> [x |-> 0, y |-> 0],
                lastServerPosition |-> serverPos]
          ELSE [player |-> lp, predictionError |-> error,
                lastServerPosition |-> serverPos]
     ELSE [player |-> lp, predictionError |-> [x |-> 0, y |-> 0],
           lastServerPosition |-> lastServerPosition]

\* handleServerReconciliation: the player, the error and the stored server
\* position it leaves
handleServerReconciliation(lp, serverPos) ==
  LET error == [x |-> serverPos.x - lp.x, y |-> serverPos.y - lp.y]
      snapThreshold == IF lp.isDashing THEN SNAP_THRESHOLD_DASHING
                                       ELSE SNAP_THRESHOLD
  IN IF MagnitudeExceeds(error, DEAD_BAND)
     THEN IF MagnitudeExceeds(error, snapThreshold)
          THEN [player |-> setPosition(lp, serverPos.x, serverPos.y),
                predictionError |-> [x |-> 0, y |-> 0],
                lastServerPosition |-> serverPos]
          ELSE [player |-> lp, predictionError |-> error,
                lastServerPosition |-> serverPos]
     ELSE [player |-> lp, predictionError |-> [x |-> 0, y |-> 0],
           lastServerPosition |-> lastServerPosition]

\* on("local-player-server-update")
onLocalPlayerServerUpdate(serverData) ==
  /\ connected
  /\ \E r \in {handleServerReconciliation(localPlayer,
                     [x |-> serverData.x, y |-> serverData.y])} :
        /\ localPlayer' = [r.player EXCEPT !.health = serverData.health,
                                           !.isDead = serverData.isDead]
        /\ predictionError' = r.predictionError
        /\ lastServerPosition' = r.lastServerPosition
  /\ lastEvent' = [type |-> "local-player-server-update", data |-> serverData]
  /\ RoomIdle
  /\ UNCHANGED gameScene
  /\ UNCHANGED <<localPlayerId, remotePlayers, networkQualityIndicators,
                 activeBullets, connected, pendingPlayers, roster, sprites,
                 pool, sceneKey>>

\* error * reconciliationSpeed * (delta / 1000), to the hundredth of a pixel
Reconcile(error, delta) ==
  IF error >= 0 THEN (error * RECONCILIATION_TENTHS * delta) \div 10000
  ELSE 0 - (((0 - error) * RECONCILIATION_TENTHS * delta) \div 10000)

\* the remaining error after one frame
Remaining(error, delta) ==
  IF Abs(error - Reconcile(error, delta)) < TINY THEN 0
  ELSE error - Reconcile(error, delta)

\* an update that bleeds the error off without moving the player
clientUpdateStill(delta) ==
  /\ sceneKey = "GameScene"
  /\ IF predictionError.x # 0 \/ predictionError.y # 0
     THEN /\ UNCHANGED localPlayer
          /\ predictionError' = [x |-> Remaining(predictionError.x, delta),
                                 y |-> Remaining(predictionError.y, delta)]
     ELSE UNCHANGED <<localPlayer, predictionError>>
  /\ lastEvent' = [type |-> "update", data |-> delta]
  /\ RoomIdle
  /\ UNCHANGED gameScene
  /\ UNCHANGED <<localPlayerId, remotePlayers, networkQualityIndicators,
                 activeBullets, lastServerPosition, connected, pendingPlayers,
                 roster, sprites, pool, sceneKey>>

\* MultiplayerCoordinator.update(delta), called from the scene's update
clientUpdate(delta) ==
  /\ sceneKey = "GameScene"
  /\ IF predictionError.x # 0 \/ predictionError.y # 0
     THEN /\ localPlayer' =
               [localPlayer EXCEPT
                  !.x = @ + Reconcile(predictionError.x, delta),
                  !.y = @ + Reconcile(predictionError.y, delta)]
          /\ predictionError' = [x |-> Remaining(predictionError.x, delta),
                                 y |-> Remaining(predictionError.y, delta)]
     ELSE UNCHANGED <<localPlayer, predictionError>>
  /\ lastEvent' = [type |-> "update", data |-> delta]
  /\ RoomIdle
  /\ UNCHANGED gameScene
  /\ UNCHANGED <<localPlayerId, remotePlayers, networkQualityIndicators,
                 activeBullets, lastServerPosition, connected, pendingPlayers,
                 roster, sprites, pool, sceneKey>>

\* the movement subsystem puts the player somewhere, dashing or not
Steer(x, y, dashing) ==
  /\ sceneKey = "GameScene"
  /\ localPlayer' = [localPlayer EXCEPT !.x = x, !.y = y,
                                        !.isDashing = dashing]
  /\ lastEvent' = [type |-> "steer"]
  /\ RoomIdle
  /\ UNCHANGED gameScene
  /\ UNCHANGED <<localPlayerId, remotePlayers, networkQualityIndicators,
                 activeBullets, predictionError, lastServerPosition, connected,
                 pendingPlayers, roster, sprites, pool, sceneKey>>

(***************************************************************************)
(* LocalPlayer (entities/LocalPlayer.ts): the shooting cooldown            *)
(***************************************************************************)
\* GAME_CONFIG.WEAPON.FIRE_RATE, in milliseconds
FIRE_RATE == 200

\* the duration of a frame of the scene whose player shoots
ShotFrameMs == 100

\* frames the scene is observed for
MaxShotFrames == 6

\* the keys a frame finds down: crouch, and one of the two shoot keys
ShotInputs == [down : BOOLEAN, shoot : BOOLEAN]

\* what the room reports of the local player: where the player stands and
\* far from there, alive with less health and dead
ShotServerData ==
  { [x |-> Px(200), y |-> Px(500), health |-> 40, isDead |-> FALSE],
    [x |-> Px(200), y |-> Px(500), health |-> 0, isDead |-> TRUE],
    [x |-> Px(1500), y |-> Px(500), health |-> 40, isDead |-> FALSE] }

\* MovementSystem.updateMovement, as far as crouching goes
updateMovement(lp, input, menuOpen) ==
  [lp EXCEPT !.isCrouching = ~menuOpen /\ input.down]

\* LocalPlayer.handleShooting at scene time now
handleShooting(lp, now, menuOpen, shootDown) ==
  IF lp.isCrouching \/ menuOpen
  THEN [player |-> lp, emitted |-> FALSE]
  ELSE IF shootDown /\ now - lp.lastShootTime >= FIRE_RATE
       THEN [player |-> [lp EXCEPT !.lastShootTime = now], emitted |-> TRUE]
       ELSE [player |-> lp, emitted |-> FALSE]

\* LocalPlayer.update(time, delta) in the frame delta after the last one
playerUpdate(delta, input) ==
  /\ sceneKey = "GameScene"
  /\ gameScene.now + delta <= MaxShotFrames * ShotFrameMs
  /\ LET now == gameScene.now + delta
         r == IF localPlayer.isDead
              THEN [player |-> localPlayer, emitted |-> FALSE]
              ELSE handleShooting(
                     updateMovement(localPlayer, input, gameScene.menuOpen),
                     now, gameScene.menuOpen, input.shoot)
     IN /\ localPlayer' = r.player
        /\ gameScene' = [gameScene EXCEPT
                           !.now = now,
                           !.shotAt = IF r.emitted THEN now ELSE @]
        /\ lastEvent' = IF r.emitted THEN [type |-> "shoot", at |-> now]
                                     ELSE [type |-> "frame", at |-> now]
  /\ RoomIdle
  /\ UNCHANGED <<localPlayerId, remotePlayers, networkQualityIndicators,
                 activeBullets, predictionError, lastServerPosition, connected,
                 pendingPlayers, roster, sprites, pool, sceneKey>>

\* the player opens or closes the in-game menu of the scene
toggleMenu ==
  /\ sceneKey = "GameScene"
  /\ gameScene' = [gameScene EXCEPT !.menuOpen = ~@]
  /\ lastEvent' = [type |-> "menu"]
  /\ RoomIdle
  /\ UNCHANGED <<localPlayerId, remotePlayers, networkQualityIndicators,
                 activeBullets, localPlayer, predictionError,
                 lastServerPosition, connected, pendingPlayers, roster,
                 sprites, pool, sceneKey>>

(***************************************************************************)
(* The client                                                              *)
(***************************************************************************)
\* a client that hears of itself and of two others, in any order
NextRoster ==
  \/ \E data \in TeamAssignedData : onTeamAssigned(data)
  \/ \E id \in {Me} \cup Others : onPlayerAdded(PlayerDataOf(id))
  \/ \E id \in Others : onPlayerRemoved(id)
  \/ \E id \in {Me} \cup Others : onPlayerUpdated(PlayerUpdateOf(id))
  \/ leaveMultiplayer

SpecRoster == InitFresh /\ [][NextRoster]_cvars

\* a client that hears of itself, of one other client and of bullets
NextVisuals ==
  \/ \E data \in TeamAssignedData : onTeamAssigned(data)
  \/ \E id \in {Me, SessionIds[2]} : onPlayerAdded(PlayerDataOf(id))
  \/ \E bullet \in BulletDataSet : onBulletAdded(bullet)
  \/ \E bullet \in BulletDataSet : onBulletRemoved(bullet)
  \/ \E k \in 1..Len(sprites) : onComplete(k)
  \/ Fire(Px(600))
  \/ leaveMultiplayer

SpecVisuals == InitFresh /\ [][NextVisuals]_cvars

\* the position the room reports for the local player
ServerX == 1500
ServerY == 500
ServerDataSet ==
  { [x |-> Px(ServerX), y |-> Px(ServerY), health |-> 100, isDead |-> FALSE] }

\* how far from that position the movement subsystem puts the player, in
\* pixels: at 5 (straight and askew), just over 5, at 100, just over 100,
\* at 300, just over 300, and at 500
Offsets ==
  { <<5, 0>>, <<3, 4>>, <<6, 0>>, <<60, 80>>, <<100, 1>>, <<180, 240>>,
    <<300, 1>>, <<500, 0>> }

\* the duration of a frame
FrameMs == 500

\* a client whose player is put at some distance from where the room has it,
\* dashing or not, whenever no error is left to bleed off
NextReconcile ==
  \/ \E o \in Offsets, dashing \in BOOLEAN :
        /\ predictionError = [x |-> 0, y |-> 0]
        /\ Steer(Px(ServerX - o[1]), Px(ServerY - o[2]), dashing)
  \/ \E serverData \in ServerDataSet : onLocalPlayerServerUpdate(serverData)
  \/ clientUpdate(FrameMs)

SpecReconcile == InitFresh /\ [][NextReconcile]_cvars

\* A client whose player the movement subsystem puts somewhere once and then
\* leaves alone, while the room keeps reporting the same position and the
\* scene keeps running frames.
NextSettle ==
  \/ \E o \in Offsets, dashing \in BOOLEAN :
        /\ lastEvent = NoEvent
        /\ Steer(Px(ServerX - o[1]), Px(ServerY - o[2]), dashing)
  \/ \E serverData \in ServerDataSet : onLocalPlayerServerUpdate(serverData)
  \/ clientUpdate(FrameMs)

SpecSettle ==
  /\ InitFresh
  /\ [][NextSettle]_cvars
  /\ WF_cvars(clientUpdate(FrameMs))
  /\ WF_cvars(\E serverData \in ServerDataSet :
                 onLocalPlayerServerUpdate(serverData))

\* a client whose player shoots, crouches, dies and is put somewhere by the
\* room, with the menu of the scene open or closed
NextShooting ==
  \/ \E data \in TeamAssignedData : onTeamAssigned(data)
  \/ \E serverData \in ShotServerData : onLocalPlayerServerUpdate(serverData)
  \/ \E input \in ShotInputs : playerUpdate(ShotFrameMs, input)
  \/ toggleMenu

SpecShooting == InitFresh /\ [][NextShooting]_cvars

(***************************************************************************)
(* Properties                                                              *)
(***************************************************************************)
\* the positions of hs whose victim is id
HitsOn(hs, id) == {k \in 1..Len(hs) : hs[k].victimId = id}
\* a hit that takes the victim's health to 0 or below
IsKill(h) == h.healthBefore - BULLET_DAMAGE <= 0
KillsBy(hs, team) ==
  Cardinality({k \in 1..Len(hs) : IsKill(hs[k]) /\ hs[k].ownerTeam = team})
KillMessagesFor(msgs, victimId) ==
  {m \in 1..Len(msgs) : msgs[m].type = "player-killed"
                        /\ msgs[m].victimId = victimId}
\* position of id in the map order
OrderIndex(id) == CHOOSE k \in 1..Len(order) : order[k] = id

\* C1: a bullet never reduces the health of, or kills, a player of its owner's
\* team or its owner: every hit resolved is on an enemy that is not the owner,
\* and health drops or a player dies only through such a hit.
C1_NoFriendlyFire ==
  [][ /\ \A k \in 1..Len(hits') :
           /\ hits'[k].victimTeam # hits'[k].ownerTeam
           /\ hits'[k].victimId # hits'[k].ownerId
      /\ \A id \in DOMAIN players \cap DOMAIN players' :
           (\/ players'[id].health < players[id].health
            \/ players'[id].isDead /\ ~players[id].isDead)
             => HitsOn(hits', id) # {}
    ]_vars

\* a hit was resolved on an enemy while a live teammate of the bullet's owner,
\* earlier in the map order, stood in the same place as the victim
C1_Witness ==
  \E k \in 1..Len(hits) : \E id \in DOMAIN players :
     /\ hits[k].victimId \in DOMAIN players
     /\ id # hits[k].ownerId
     /\ players[id].team = hits[k].ownerTeam
     /\ ~players[id].isDead
     /\ id \notin respawned
     /\ players[id].x = players[hits[k].victimId].x
     /\ players[id].y = players[hits[k].victimId].y
     /\ OrderIndex(id) < OrderIndex(hits[k].victimId)

\* C2: in every state reached by join, leave, move, dash, shoot, timer and tick
\* events, a player is dead iff health = 0 or respawnTimer > 0.
C2_DeadIffNoHealthOrTimer ==
  \A id \in DOMAIN players :
     players[id].isDead <=>
       (players[id].health = 0 \/ players[id].respawnTimer > 0)

\* a red player that had dashed was just respawned: alive, health restored,
\* timer run out
C2_Witness ==
  \E id \in respawned :
     /\ players[id].team = "red"
     /\ players[id].isDashing
     /\ ~players[id].isDead
     /\ players[id].health = FULL_HEALTH
     /\ players[id].respawnTimer <= 0

\* C3: a hit that takes a live player's health to 0 or below makes the victim
\* dead with health 0 and respawnTimer 3000 in the same tick, broadcasts exactly
\* one player-killed naming the bullet's owner and the victim, and adds exactly
\* 1 to the score of the bullet's team and to no other; any other hit changes
\* no score and broadcasts nothing.
C3_KillEffects ==
  [][ /\ \A k \in 1..Len(hits') :
           LET h == hits'[k]
           IN IF IsKill(h)
              THEN /\ players'[h.victimId].isDead
                   /\ players'[h.victimId].health = 0
                   /\ players'[h.victimId].respawnTimer = RESPAWN_MS
                   /\ Cardinality(KillMessagesFor(sent', h.victimId)) = 1
                   /\ \A m \in KillMessagesFor(sent', h.victimId) :
                        sent'[m].killerId = h.ownerId
                   /\ h.scoresAfter.red =
                        h.scoresBefore.red + (IF h.ownerTeam = "red" THEN 1 ELSE 0)
                   /\ h.scoresAfter.blue =
                        h.scoresBefore.blue + (IF h.ownerTeam = "blue" THEN 1 ELSE 0)
              ELSE /\ h.scoresAfter = h.scoresBefore
                   /\ h.sentAfter = h.sentBefore
      /\ scores'.red = scores.red + KillsBy(hits', "red")
      /\ scores'.blue = scores.blue + KillsBy(hits', "blue")
      /\ Cardinality({m \in 1..Len(sent') : sent'[m].type = "player-killed"})
           = KillsBy(hits', "red") + KillsBy(hits', "blue")
    ]_vars

\* one tick resolved a kill by a blue bullet and a hit that did not kill
C3_Witness ==
  /\ \E k \in 1..Len(hits) : IsKill(hits[k]) /\ hits[k].ownerTeam = "blue"
  /\ \E k \in 1..Len(hits) : ~IsKill(hits[k])

\* C4: gameState is ended iff a score is at least WIN_SCORE; so while playing
\* both scores are below WIN_SCORE and their sum is at most 2 * WIN_SCORE - 1.
C4_EndedIffWinScore ==
  /\ (gameState = "ended") <=> (Max(scores.red, scores.blue) >= WIN_SCORE)
  /\ gameState = "playing" =>
       /\ scores.red < WIN_SCORE
       /\ scores.blue < WIN_SCORE
       /\ scores.red + scores.blue <= 2 * WIN_SCORE - 1

\* the tick that took a score to WIN_SCORE has just run
C4_Witness ==
  /\ gameState = "ended"
  /\ lastTick = "ran"
  /\ \E k \in 1..Len(hits) : IsKill(hits[k])
  /\ Max(scores.red, scores.blue) >= WIN_SCORE

\* C5: match-ended is broadcast exactly once per match, also when several
\* bullets kill in the tick that reaches the winning score.
C5_MatchEndedOnce ==
  /\ matchEnded <= 1
  /\ gameState = "ended" => matchEnded = 1

\* C6: once winningTeam is set, no later kill of the same tick changes it.
C6_WinnerFixed ==
  \A k \in 1..Len(hits) :
     hits[k].winnerBefore # NoTeam => hits[k].winnerAfter = hits[k].winnerBefore

\* C7: gameState is ended iff winningTeam is set.
C7_EndedIffWinner ==
  (gameState = "ended") <=> (winningTeam # NoTeam)

\* the match has ended with blue as the winning team
C7_Witness ==
  /\ gameState = "ended"
  /\ winningTeam = "blue"

\* C8: a tick while gameState is not playing changes neither gameTime, nor any
\* player, nor the bullets, nor the scores, and broadcasts nothing.
C8_IdleTickNoOp ==
  [][ (lastTick' # "none" /\ gameState # "playing") =>
        /\ UNCHANGED <<gameTime, players, bullets, scores, gameState,
                       winningTeam>>
        /\ sent' = << >>
    ]_vars

\* update has been called after the match ended, with a bullet in the list
\* and a dead player waiting to respawn
C8_Witness ==
  /\ gameState = "ended"
  /\ lastTick = "skipped"
  /\ sent = << >>
  /\ bullets # << >>
  /\ \E id \in DOMAIN players :
       players[id].isDead /\ players[id].respawnTimer > 0

\* C9: while playing, a dead player is respawned in the first tick at which the
\* deltas simulated since the kill reach 3000 ms, and in no earlier one; the
\* respawn makes the player alive with health 100 at the team's spawn point
\* (a bullet of the same tick then finds a live player of health 100).
C9_RespawnOnTime ==
  [][ \A id \in DOMAIN players :
        (players[id].isDead /\ lastTick' = "ran") =>
          LET due == sinceKill[id] + (gameTime' - gameTime) >= RESPAWN_MS
              on == HitsOn(hits', id)
          IN /\ due <=> id \in respawned'
             /\ due =>
                  /\ players'[id].x = (IF players[id].team = "red" THEN 200 ELSE 2800)
                  /\ players'[id].y = 500
                  /\ on = {} => /\ ~players'[id].isDead
                                /\ players'[id].health = 100
                  /\ on # {} =>
                       LET first == CHOOSE k \in on : \A j \in on : k <= j
                       IN hits'[first].healthBefore = 100
             /\ ~due =>
                  /\ players'[id].isDead
                  /\ players'[id].health = players[id].health
                  /\ players'[id].x = players[id].x
                  /\ players'[id].y = players[id].y
                  /\ on = {}
    ]_vars

\* a blue player that had left its spawn point was respawned after ticks that
\* add up to exactly 3000 ms
C9_Witness ==
  \E id \in respawned :
     /\ players[id].team = "blue"
     /\ ~players[id].isDead
     /\ players[id].health = 100
     /\ players[id].x = 2800
     /\ players[id].flipX
     /\ players[id].respawnTimer = 0

\* C10: the respawn timer is 3000 at each death, strictly decreases in every
\* playing tick while the player is dead, and resets the player exactly once:
\* only a dead player whose timer this tick takes to 0 or below is respawned.
C10_TimerRunsOnce ==
  [][ \A id \in DOMAIN players \cap DOMAIN players' :
        /\ (~players[id].isDead /\ players'[id].isDead) =>
             players'[id].respawnTimer = RESPAWN_MS
        /\ (players[id].isDead /\ lastTick' = "ran") =>
             \/ id \in respawned'
             \/ /\ players'[id].isDead
                /\ players'[id].respawnTimer < players[id].respawnTimer
                /\ players'[id].respawnTimer > 0
        /\ id \in respawned' =>
             /\ players[id].isDead
             /\ players[id].respawnTimer > 0
             /\ lastTick' = "ran"
             /\ players[id].respawnTimer - (gameTime' - gameTime) <= 0
             /\ players'[id].isDead => players'[id].respawnTimer = RESPAWN_MS
        /\ (~players[id].isDead /\ ~players'[id].isDead) =>
             players'[id].respawnTimer = players[id].respawnTimer
    ]_vars

\* a dead player in the middle of the countdown
C10_Witness ==
  \E id \in DOMAIN players :
     /\ players[id].isDead
     /\ players[id].respawnTimer > 0
     /\ players[id].respawnTimer < RESPAWN_MS
     /\ sinceKill[id] > 0

\* C11: in every reachable state every player's respawnTimer is at least 0,
\* the state after the tick that respawns the player included.
C11_TimerNeverNegative ==
  \A id \in DOMAIN players : players[id].respawnTimer >= 0

\* C12: a tick whose delta is absent or not a finite number (undefined, NaN,
\* +Infinity, -Infinity) is skipped: it changes neither gameTime, nor the
\* players, nor the bullets, nor the scores.
C12_BadDeltaSkipped ==
  [][ (lastMsg'.type = "tick" /\ ~IsFinite(lastMsg'.deltaTime)) =>
        UNCHANGED <<gameTime, players, bullets, scores>>
    ]_vars

\* C13: an accepted shoot (the sender has a live player, the match is playing,
\* x and y are numbers) creates exactly one bullet, at the payload's x and y,
\* with velocityX +BULLET_SPEED if the sender's server-side flipX is false
\* and -BULLET_SPEED if it is true, owned by the sender's session id and
\* team; nothing else of the payload reaches the bullet.
C13_ShotMakesOneBullet ==
  [][ LET msg == lastMsg'
      IN (/\ msg.type = "shoot"
          /\ msg.from \in DOMAIN players
          /\ ~players[msg.from].isDead
          /\ gameState = "playing"
          /\ ~IsNaN(msg.data.x) /\ ~IsNaN(msg.data.y)) =>
         \E stamp \in 0..MaxBullets :
            /\ bullets' = Append(bullets,
                  [id |-> <<msg.from, stamp, 0>>,
                   x |-> msg.data.x, y |-> msg.data.y,
                   velocityX |-> IF players[msg.from].flipX
                                 THEN 0 - BULLET_SPEED ELSE BULLET_SPEED,
                   ownerId |-> msg.from,
                   ownerTeam |-> players[msg.from].team])
            /\ \A k \in 1..Len(bullets) :
                  IdString(bullets[k].id) # <<msg.from, stamp>>
    ]_vars

\* a red player facing left has just shot with a payload that also names a
\* velocity, an owner and a team
C13_Witness ==
  /\ lastMsg.type = "shoot"
  /\ "velocityX" \in DOMAIN lastMsg.data
  /\ lastMsg.from \in DOMAIN players
  /\ players[lastMsg.from].flipX
  /\ bullets # << >>
  /\ LET b == bullets[Len(bullets)]
     IN /\ b.ownerId = lastMsg.from
        /\ b.velocityX = 0 - BULLET_SPEED
        /\ b.ownerTeam = "red"
        /\ b.ownerTeam # lastMsg.data.ownerTeam
        /\ b.ownerId # lastMsg.data.ownerId

\* C14: a shoot from a sender that has no player, from a dead player, or
\* while the match is not playing creates no bullet, schedules no lifetime
\* timer and leaves the room state unchanged.
C14_RejectedShotChangesNothing ==
  [][ LET msg == lastMsg'
      IN (/\ msg.type = "shoot"
          /\ \/ msg.from \notin DOMAIN players
             \/ players[msg.from].isDead
             \/ gameState # "playing") =>
         UNCHANGED <<bullets, timers, players, order, scores, gameState,
                     winningTeam, gameTime, metadata>>
    ]_vars

\* a dead player has just sent a shoot while the match is playing
C14_Witness ==
  /\ lastMsg.type = "shoot"
  /\ gameState = "playing"
  /\ lastMsg.from \in DOMAIN players
  /\ players[lastMsg.from].isDead
  /\ ~IsNaN(lastMsg.data.x) /\ ~IsNaN(lastMsg.data.y)

\* the room has no player for the session that has just sent a valid shoot
C14_WitnessAbsent ==
  /\ lastMsg.type = "shoot"
  /\ gameState = "playing"
  /\ lastMsg.from \notin DOMAIN players
  /\ ~IsNaN(lastMsg.data.x) /\ ~IsNaN(lastMsg.data.y)

\* C15: a shoot whose x or y is missing or is not a finite number (NaN,
\* +Infinity, -Infinity) is dropped, so every bullet of the list has finite
\* x, y and velocityX.
C15_BadShotDropped ==
  [][ LET msg == lastMsg'
      IN (/\ msg.type = "shoot"
          /\ ~IsFinite(msg.data.x) \/ ~IsFinite(msg.data.y)) =>
         /\ UNCHANGED <<bullets, timers>>
         /\ \A k \in 1..Len(bullets') :
               /\ IsFinite(bullets'[k].x)
               /\ IsFinite(bullets'[k].y)
               /\ IsFinite(bullets'[k].velocityX)
    ]_vars

\* C16: a move with a numeric field (x, y, velocityX, velocityY) that is
\* missing or not finite is dropped: the sender's pose is unchanged, and no
\* player ever holds a position that is not finite.
C16_BadMoveDropped ==
  [][ LET msg == lastMsg'
      IN /\ (/\ msg.type = "move"
             /\ \/ ~IsFinite(msg.data.x) \/ ~IsFinite(msg.data.y)
                \/ ~IsFinite(msg.data.velocityX)
                \/ ~IsFinite(msg.data.velocityY)) =>
            UNCHANGED players
         /\ \A id \in DOMAIN players' :
               IsFinite(players'[id].x) /\ IsFinite(players'[id].y)
    ]_vars

\* the pose fields a move or a dash writes
Pose(player) ==
  <<player.x, player.y, player.velocityX, player.velocityY, player.flipX,
    player.isDashing>>

\* C17: a move or a dash from a dead or absent sender changes nothing; a dead
\* player keeps x, y, velocity, flipX and isDashing as they were at death
\* until the tick that respawns it, and a move or a dash never changes a
\* field of a player other than its sender.
C17_DeadAndOthersKeepPose ==
  [][ LET msg == lastMsg'
      IN /\ msg.type \in {"move", "dash"} =>
              /\ DOMAIN players' = DOMAIN players
              /\ \A id \in DOMAIN players :
                    (id # msg.from \/ players[id].isDead) =>
                       players'[id] = players[id]
              /\ UNCHANGED <<bullets, timers, scores, gameState, winningTeam,
                             gameTime, metadata>>
         /\ \A id \in DOMAIN players \cap DOMAIN players' :
               /\ (players[id].isDead /\ id \notin respawned') =>
                     /\ players'[id].isDead
                     /\ Pose(players'[id]) = Pose(players[id])
               /\ (~players[id].isDead /\ players'[id].isDead) =>
                     Pose(players'[id]) = Pose(players[id])
    ]_vars

\* a dead player standing elsewhere and facing the other way has just sent a
\* move
C17_Witness ==
  /\ lastMsg.type = "move"
  /\ lastMsg.from \in DOMAIN players
  /\ players[lastMsg.from].isDead
  /\ players[lastMsg.from].x # lastMsg.data.x
  /\ players[lastMsg.from].flipX # lastMsg.data.flipX

\* a dead player that was not dashing has just sent a dash
C17_WitnessDash ==
  /\ lastMsg.type = "dash"
  /\ lastMsg.from \in DOMAIN players
  /\ players[lastMsg.from].isDead
  /\ players[lastMsg.from].isDashing # lastMsg.data.isDashing

\* C18: bullet removal is idempotent under every interleaving of ticks and
\* lifetime timeouts: the timeout of a bullet that is no longer in the list
\* removes no other bullet and changes no state, a timeout removes nothing
\* but its own bullet, and a bullet that left the list never comes back.
C18_RemovalIdempotent ==
  [][ /\ lastMsg'.type = "timeout" =>
           /\ (\A k \in 1..Len(bullets) : bullets[k].id # lastMsg'.id) =>
                 UNCHANGED <<bullets, players, scores, gameState, gameTime>>
           /\ \A k \in 1..Len(bullets) :
                 bullets[k].id # lastMsg'.id =>
                    \E j \in 1..Len(bullets') : bullets'[j].id = bullets[k].id
      /\ \A j \in 1..Len(bullets') :
           \/ \E k \in 1..Len(bullets) : bullets[k].id = bullets'[j].id
           \/ /\ lastMsg'.type = "shoot"
              /\ j = Len(bullets')
              /\ \A t \in timers : t.id # bullets'[j].id
      /\ \A j, k \in 1..Len(bullets') :
           bullets'[j].id = bullets'[k].id => j = k
    ]_vars

\* C19: every bullet appended by shoot is eventually removed from the list,
\* at the latest by its lifetime timeout: a bullet in the list always has its
\* timeout pending, and no bullet stays in the list forever, also when the
\* match ends or ticks are skipped while it is in flight.  (Shots stop before
\* the end of the observation, so the bullets of a list are all gone when
\* the list is empty again.)
C19_BulletEventuallyRemoved ==
  /\ [](\A k \in 1..Len(bullets) : \E t \in timers : t.id = bullets[k].id)
  /\ (bullets # << >>) ~> (bullets = << >>)

\* the match has ended and ticks are skipped while a bullet is in the list
C19_Witness ==
  /\ gameState = "ended"
  /\ lastTick = "skipped"
  /\ bullets # << >>

\* C20: after its owner left the room a bullet stays in the list and keeps
\* being simulated: onLeave removes no bullet; in a simulating tick the
\* bullet hits a player or moves on by velocityX * delta; its hit damages and
\* may kill an enemy, and a kill adds 1 to the score of its ownerTeam and
\* broadcasts player-killed whose killerId is the departed owner's id.
C20_OrphanBulletLives ==
  [][ /\ (DOMAIN players' # DOMAIN players
          /\ DOMAIN players' \subseteq DOMAIN players) =>
           UNCHANGED <<bullets, timers, scores>>
      /\ lastTick' = "ran" =>
           \A k \in 1..Len(bullets) :
              bullets[k].ownerId \notin DOMAIN players =>
                 LET moved == [bullets[k] EXCEPT
                                 !.x = @ + (bullets[k].velocityX
                                            * (gameTime' - gameTime)) \div 1000]
                 IN \/ \E j \in 1..Len(hits') : hits'[j].bullet = bullets[k].id
                    \/ \E j \in 1..Len(bullets') : bullets'[j] = moved
                    \/ moved.x < WORLD_MIN_X \/ moved.x > WORLD_MAX_X
                    \/ checkBulletPlatformCollision(
                          [x |-> moved.x, y |-> moved.y,
                           width |-> BULLET_WIDTH, height |-> BULLET_HEIGHT])
      /\ \A k \in 1..Len(hits') :
           LET h == hits'[k]
           IN h.ownerId \notin DOMAIN players =>
                /\ h.victimTeam # h.ownerTeam
                /\ players'[h.victimId].health <= Max(0, h.healthBefore - BULLET_DAMAGE)
                /\ IsKill(h) =>
                     /\ players'[h.victimId].isDead
                     /\ h.scoresAfter[h.ownerTeam] = h.scoresBefore[h.ownerTeam] + 1
                     /\ \A m \in KillMessagesFor(sent', h.victimId) :
                          /\ sent'[m].killerId = h.ownerId
                          /\ sent'[m].killerName = "Unknown"
                     /\ KillMessagesFor(sent', h.victimId) # {}
    ]_vars

\* a bullet whose owner has left has just killed an enemy
C20_Witness ==
  /\ lastTick = "ran"
  /\ \E k \in 1..Len(hits) :
        /\ IsKill(hits[k])
        /\ hits[k].ownerId \notin DOMAIN players
        /\ scores[hits[k].ownerTeam] > hits[k].scoresBefore[hits[k].ownerTeam]
        /\ \E m \in KillMessagesFor(sent, hits[k].victimId) :
              sent[m].killerId = hits[k].ownerId

\* the position of the bullet with this id in the list
BulletIndex(bulletId) ==
  CHOOSE k \in 1..Len(bullets) : bullets[k].id = bulletId

\* whether player id is alive when update scans the players for the bullet at
\* position k: alive after the respawn loop and not killed by a bullet that
\* comes earlier in the list
LiveAtScan(id, k) ==
  /\ ~players[id].isDead \/ id \in respawned'
  /\ ~\E j \in 1..Len(hits') :
        /\ hits'[j].victimId = id
        /\ IsKill(hits'[j])
        /\ BulletIndex(hits'[j].bullet) < k

\* where player id stands during the bullet loop, as <<x, y>>
PlaceAtScan(id) ==
  IF id \in respawned'
  THEN <<SpawnX(players[id].team), SPAWN_Y>>
  ELSE <<players[id].x, players[id].y>>

\* the live enemies, other than the owner, whose hitbox the swept box of the
\* bullet at position k overlaps in a tick of deltaTime
SweptOver(k, deltaTime) ==
  LET b == bullets[k]
      nextX == b.x + (b.velocityX * deltaTime) \div 1000
      left == (IF b.x < nextX THEN b.x ELSE nextX) - BULLET_WIDTH \div 2
      right == (IF b.x > nextX THEN b.x ELSE nextX) + BULLET_WIDTH \div 2
  IN {id \in DOMAIN players :
        /\ id # b.ownerId
        /\ players[id].team # b.ownerTeam
        /\ LiveAtScan(id, k)
        /\ left < PlaceAtScan(id)[1] + PLAYER_HALF_WIDTH
        /\ right > PlaceAtScan(id)[1] - PLAYER_HALF_WIDTH
        /\ b.y - BULLET_HEIGHT \div 2 < PlaceAtScan(id)[2]
        /\ b.y + BULLET_HEIGHT \div 2
              > PlaceAtScan(id)[2] - 2 * PLAYER_HALF_HEIGHT}

\* C21: no tunneling.  In a simulating tick a bullet whose swept box overlaps
\* the hitbox of some live enemy other than its owner registers exactly one
\* hit, on one of the players it overlaps, whatever the movement of the tick
\* and its direction; a bullet that overlaps none registers no hit, and no
\* player loses health but through a registered hit.
C21_NoTunneling ==
  [][ lastTick' = "ran" =>
        /\ \A k \in 1..Len(bullets) :
              LET over == SweptOver(k, gameTime' - gameTime)
                  mine == {j \in 1..Len(hits') : hits'[j].bullet = bullets[k].id}
              IN IF over = {}
                 THEN mine = {}
                 ELSE /\ Cardinality(mine) = 1
                      /\ \A j \in mine : hits'[j].victimId \in over
        /\ \A id \in DOMAIN players :
              (players'[id].health < players[id].health /\ id \notin respawned')
                 => HitsOn(hits', id) # {} ]_vars

\* a bullet that starts short of a player and ends beyond it, neither end of
\* its movement inside the hitbox, has hit that player: once flying right,
\* once flying left
C21_Witness ==
  /\ lastTick = "ran"
  /\ \E k \in 1..Len(hits) :
        LET victim == players[hits[k].victimId]
        IN /\ hits[k].ownerTeam = "red"
           /\ victim.x - PLAYER_HALF_WIDTH > 600 + BULLET_WIDTH
           /\ victim.x + PLAYER_HALF_WIDTH < 600 + (BULLET_SPEED * TickMs) \div 1000
                                               - BULLET_WIDTH

C21_WitnessLeft ==
  /\ lastTick = "ran"
  /\ \E k \in 1..Len(hits) :
        LET victim == players[hits[k].victimId]
        IN /\ hits[k].ownerTeam = "blue"
           /\ victim.x + PLAYER_HALF_WIDTH < 600 - BULLET_WIDTH
           /\ victim.x - PLAYER_HALF_WIDTH > 600 - (BULLET_SPEED * TickMs) \div 1000
                                               + BULLET_WIDTH

\* a bullet overlapped two players and hit one
C21_WitnessTwo ==
  /\ lastTick = "ran"
  /\ Len(hits) = 1
  /\ \E id \in DOMAIN players :
        /\ id # hits[1].victimId
        /\ players[id].team = hits[1].victimTeam
        /\ ~players[id].isDead
        /\ players[id].x = players[hits[1].victimId].x
        /\ players[id].y = players[hits[1].victimId].y
        /\ players[id].health = FULL_HEALTH

\* C22: on the client, whatever the order in which team-assigned,
\* player-added and player-updated arrive, no RemotePlayer is created while
\* localPlayerId is unknown, and none is ever created for the client's own id.
C22_NoRemoteBeforeIdentity ==
  [][ /\ localPlayerId' = NoPlayer =>
           DOMAIN remotePlayers' \subseteq DOMAIN remotePlayers
      /\ Me \notin DOMAIN remotePlayers' ]_cvars

\* the second half of C22 alone: none for the client's own id
C22_NoRemoteSelf == Me \notin DOMAIN remotePlayers

\* C23: player-added events that arrive before team-assigned are held back
\* and replayed: when team-assigned has been handled, every other player that
\* was announced before and has not been removed since has a RemotePlayer,
\* no further event for that player being needed.
C23_PendingReplayed ==
  [][ lastEvent'.type = "team-assigned" =>
        \A id \in Present \ {Me} :
           /\ id \in DOMAIN remotePlayers'
           /\ remotePlayers'[id].team = PlayerDataOf(id).team ]_cvars

\* team-assigned has just made the RemotePlayer of a player that was
\* announced before it and of which nothing was heard since
C23_Witness ==
  /\ lastEvent.type = "team-assigned"
  /\ SessionIds[2] \in Present
  /\ SessionIds[2] \in DOMAIN remotePlayers
  /\ remotePlayers[SessionIds[2]].x = PlayerDataOf(SessionIds[2]).x
  /\ SessionIds[2] \in networkQualityIndicators
  /\ Me \in Present
  /\ Me \notin DOMAIN remotePlayers

\* whether the reported position is farther than d hundredths of a pixel
\* from the player
Farther(serverData, d) ==
  LET dx == serverData.x - localPlayer.x
      dy == serverData.y - localPlayer.y
  IN IF dx > d \/ dx < 0 - d \/ dy > d \/ dy < 0 - d THEN TRUE
     ELSE dx * dx + dy * dy > d * d

C24_WitnessSnap ==
  /\ lastEvent.type = "local-player-server-update"
  /\ localPlayer.x = lastEvent.data.x
  /\ localPlayer.y = lastEvent.data.y
  /\ predictionError = [x |-> 0, y |-> 0]
  /\ lastServerPosition = [x |-> lastEvent.data.x, y |-> lastEvent.data.y]

\* C25: a server position at most 5 px from the local one, 5 px included,
\* makes predictionError (0, 0) and leaves the local position as it is, and
\* the update(delta) that follows moves the player by nothing.
C25_DeadBand ==
  [][ /\ lastEvent'.type = "local-player-server-update" =>
           (~Farther(lastEvent'.data, 500) =>
              /\ predictionError' = [x |-> 0, y |-> 0]
              /\ localPlayer'.x = localPlayer.x
              /\ localPlayer'.y = localPlayer.y)
      /\ ( /\ lastEvent.type = "local-player-server-update"
           /\ ~Farther(lastEvent.data, 500)
           /\ lastEvent'.type = "update" ) =>
           /\ localPlayer' = localPlayer
           /\ predictionError' = [x |-> 0, y |-> 0] ]_cvars

\* a server position exactly 5 px away, askew, has been handled
C25_Witness ==
  /\ lastEvent.type = "local-player-server-update"
  /\ localPlayer.x = lastEvent.data.x - Px(3)
  /\ localPlayer.y = lastEvent.data.y - Px(4)
  /\ predictionError = [x |-> 0, y |-> 0]

\* a frame has passed with the player 5 px from the server position
C25_WitnessFrame ==
  /\ lastEvent.type = "update"
  /\ localPlayer.x = Px(ServerX - 3)
  /\ localPlayer.y = Px(ServerY - 4)
  /\ predictionError = [x |-> 0, y |-> 0]
  /\ lastServerPosition = [x |-> Px(ServerX), y |-> Px(ServerY)]

\* whether the player is less than d hundredths of a pixel from the reported
\* position on each axis
NearOnEachAxis(d) ==
  /\ Abs(Px(ServerX) - localPlayer.x) < d
  /\ Abs(Px(ServerY) - localPlayer.y) < d

\* whether the player is at most 5 px from the reported position
InDeadBand ==
  /\ Abs(Px(ServerX) - localPlayer.x) <= 500
  /\ Abs(Px(ServerY) - localPlayer.y) <= 500
  /\ (Px(ServerX) - localPlayer.x) * (Px(ServerX) - localPlayer.x)
       + (Px(ServerY) - localPlayer.y) * (Px(ServerY) - localPlayer.y)
       <= 500 * 500

\* C26 as stated: with the server reporting one position and the player not
\* moving otherwise, after finitely many frames the visible position is
\* within 0.1 px of the server position on each axis and predictionError is
\* (0, 0).
C26_ConvergesToTenth ==
  <>(NearOnEachAxis(10) /\ predictionError = [x |-> 0, y |-> 0])

\* C26, amended: ... after finitely many frames the visible position is, and
\* stays, within 5 px of the server position, and predictionError is, and
\* stays, (0, 0).
C26_ConvergesToDeadBand ==
  <>[](InDeadBand /\ predictionError = [x |-> 0, y |-> 0])

\* the player has come to rest more than a pixel from the server position,
\* a server update having cleared the rest of the error
C26_Witness ==
  /\ lastEvent.type = "update"
  /\ lastServerPosition = [x |-> Px(ServerX), y |-> Px(ServerY)]
  /\ predictionError = [x |-> 0, y |-> 0]
  /\ InDeadBand
  /\ ~NearOnEachAxis(100)
  /\ localPlayer.x # Px(ServerX) - Px(3)
  /\ localPlayer.x # Px(ServerX) - Px(5)

\* C27: when leaveMultiplayer has run, the session is disconnected and the
\* client holds no multiplayer visuals: remotePlayers, the tracked
\* activeBullets and networkQualityIndicators are all empty.
C27_LeaveClearsVisuals ==
  lastEvent.type = "leave" =>
    /\ ~connected
    /\ DOMAIN remotePlayers = {}
    /\ DOMAIN activeBullets = {}
    /\ networkQualityIndicators = {}

\* C27 without the tracked bullets
C27_LeaveClearsPlayers ==
  lastEvent.type = "leave" =>
    /\ ~connected
    /\ DOMAIN remotePlayers = {}
    /\ networkQualityIndicators = {}

\* C28: a visual tracked from "bullet-added" is destroyed once and only
\* once (by "bullet-removed", by the completion of its tween or by the
\* shutdown of the scene) and gets at most one impact effect; after
\* "bullet-removed" for an id that id is not in activeBullets, and a
\* "bullet-removed" for an id that is not tracked, of a bullet of another
\* client, changes no visual and emits no effect.
C28_TrackedVisualOnce ==
  [][ /\ \A k \in 1..Len(sprites') :
           /\ sprites'[k].destroyed <= 1
           /\ sprites'[k].impacts <= 1
           /\ sprites'[k].tween # "running" => sprites'[k].destroyed = 1
           /\ sprites'[k].tween = "running" => sprites'[k].destroyed = 0
      /\ lastEvent'.type = "bullet-removed" =>
           /\ lastEvent'.data.id \notin DOMAIN activeBullets'
           /\ ( /\ lastEvent'.data.id \notin DOMAIN activeBullets
                /\ lastEvent'.data.ownerId # localPlayerId )
              => sprites' = sprites /\ pool' = pool ]_cvars

\* C28: "bullet-removed" has destroyed a tracked visual with one effect
C28_Witness ==
  /\ connected
  /\ lastEvent.type = "bullet-removed"
  /\ \E k \in 1..Len(sprites) :
       /\ sprites[k].id = lastEvent.data.id
       /\ sprites[k].ownerId # localPlayerId
       /\ sprites[k].tween = "stopped"
       /\ sprites[k].destroyed = 1
       /\ sprites[k].impacts = 1

\* C28: one visual went with its tween, the other with "bullet-removed"
C28_WitnessBoth ==
  /\ connected
  /\ \E k, j \in 1..Len(sprites) :
       /\ sprites[k].tween = "complete" /\ sprites[k].impacts = 0
       /\ sprites[j].tween = "stopped" /\ sprites[j].impacts = 1
       /\ sprites[k].id = sprites[j].id

\* C29: the metadata of the room is current: after every join, every leave
\* and every change of gameState (the tick that ends the match included)
\* its gameState is the gameState of the state and its redCount and
\* blueCount are the numbers of players of the state on each team.
C29_MetadataCurrent ==
  /\ metadata.gameState = gameState
  /\ metadata.redCount =
       Cardinality({id \in DOMAIN players : players[id].team = "red"})
  /\ metadata.blueCount =
       Cardinality({id \in DOMAIN players : players[id].team = "blue"})

\* C29: the match has ended in a tick, with players of both teams
C29_Witness ==
  /\ gameState = "ended"
  /\ winningTeam \in {"red", "blue"}
  /\ metadata.gameState = "ended"
  /\ metadata.redCount >= 1
  /\ metadata.blueCount >= 1

\* C29: a player has left a match that goes on
C29_WitnessLeave ==
  /\ gameState = "playing"
  /\ Cardinality(DOMAIN players) < joined
  /\ metadata.redCount + metadata.blueCount = Cardinality(DOMAIN players)
  /\ metadata.redCount + metadata.blueCount >= 1

\* whether update marks bullet b in a tick of deltaTime: its data is not a
\* number, it has hit a player, or it ends the tick on a platform or outside
\* the world
MarkedInTick(b, deltaTime) ==
  LET nextX == b.x + (b.velocityX * deltaTime) \div 1000
  IN \/ b.x \in {NaN, Undefined}
     \/ b.velocityX \in {NaN, Undefined}
     \/ \E j \in 1..Len(hits') : hits'[j].bullet = b.id
     \/ \E p \in Platforms :
           /\ nextX - BULLET_WIDTH \div 2 < p.x + p.width
           /\ nextX + BULLET_WIDTH \div 2 > p.x
           /\ b.y - BULLET_HEIGHT \div 2 < p.y + p.height
           /\ b.y + BULLET_HEIGHT \div 2 > p.y
     \/ nextX < WORLD_MIN_X
     \/ nextX > WORLD_MAX_X

\* the ids of a list of bullets, in the order of the list
IdsOf(bs) == [k \in 1..Len(bs) |-> bs[k].id]

\* C30: after a simulating tick the bullets list is the list of before the
\* tick without the bullets the tick marked (hit, platform, off-world,
\* invalid data), the others in the order they had: no unmarked bullet is
\* removed and no marked bullet survives.
C30_ExactRemoval ==
  [][ lastTick' = "ran" =>
        IdsOf(bullets') =
          IdsOf(SelectSeq(bullets,
                  LAMBDA b : ~MarkedInTick(b, gameTime' - gameTime))) ]_vars

\* C30: a tick took a bullet out between two bullets that stay
C30_Witness ==
  /\ lastTick = "ran"
  /\ Len(bullets) = 2
  /\ Cardinality(timers) = 3
  /\ \E t \in timers :
        /\ t.remaining = BULLET_LIFETIME_MS - ShortMs
        /\ \A k \in 1..2 : bullets[k].id # t.id
        /\ bullets[1].id[2] < t.id[2]
        /\ t.id[2] < bullets[2].id[2]

\* C30: a tick took out two bullets at once, and the one after them stays
C30_WitnessTwo ==
  /\ lastTick = "ran"
  /\ Len(bullets) = 1
  /\ Cardinality({t \in timers :
                    /\ t.remaining = BULLET_LIFETIME_MS - ShortMs
                    /\ t.id # bullets[1].id
                    /\ t.id[2] < bullets[1].id[2]}) = 2

\* C30: a tick took out the bullet that hit a player and kept the one behind
C30_WitnessHit ==
  /\ lastTick = "ran"
  /\ Len(hits) = 1
  /\ Len(bullets) >= 1
  /\ \A k \in 1..Len(bullets) : bullets[k].id[2] > hits[1].bullet[2]

\* C31: a bullet damages once at most, and one player at most.  In a
\* simulating tick every hit is by a bullet of the list, no bullet has two
\* hits, the hit takes BULLET_DAMAGE from its one victim and from nobody
\* else, and the bullet that hit is gone from the list at the end of the
\* tick; bullets of the list are distinct objects, so the bullet cannot hit
\* in a later tick.
C31_DamageOnce ==
  [][ /\ \A k, j \in 1..Len(bullets') :
           bullets'[k].id = bullets'[j].id => k = j
      /\ lastTick' = "ran" =>
           /\ \A k \in 1..Len(hits') :
                 /\ \E n \in 1..Len(bullets) : bullets[n].id = hits'[k].bullet
                 /\ \A n \in 1..Len(bullets') : bullets'[n].id # hits'[k].bullet
                 /\ \A j \in 1..Len(hits') : hits'[j].bullet = hits'[k].bullet => j = k
           /\ \A id \in DOMAIN players :
                 LET taken == Cardinality({k \in 1..Len(hits') :
                                             hits'[k].victimId = id})
                     before == IF id \in respawned' THEN FULL_HEALTH
                               ELSE players[id].health
                     left == before - taken * BULLET_DAMAGE
                 IN players'[id].health = IF left < 0 THEN 0 ELSE left ]_vars

\* C31: a bullet has hit a player who lives on with the rest of the health
\* and stands where the bullet passed; the bullet is no longer in the list
C31_Witness ==
  /\ lastTick = "ran"
  /\ Len(hits) >= 1
  /\ \A n \in 1..Len(bullets) : bullets[n].id # hits[1].bullet
  /\ ~players[hits[1].victimId].isDead
  /\ players[hits[1].victimId].health = FULL_HEALTH - BULLET_DAMAGE

\* C32: on the client, after every handler of player-added, player-updated,
\* player-removed and team-assigned, and until leaveMultiplayer, the ids that
\* have a network-quality indicator are the ids of remotePlayers: every
\* remote player has its indicator and no indicator is without its player.
C32_IndicatorPerRemote ==
  connected => networkQualityIndicators = DOMAIN remotePlayers

\* C32, one direction: no indicator without a remote player
C32_NoStrayIndicator ==
  connected => networkQualityIndicators \subseteq DOMAIN remotePlayers

\* C33: over any sequence of update() and setPosition() calls two
\* consecutive 'shoot' events of the local player are FIRE_RATE ms of scene
\* time apart or more, and no 'shoot' event is emitted while the player is
\* dead or crouching or the menu of the scene is open.
C33_FireRate ==
  [][ lastEvent'.type = "shoot" =>
        /\ gameScene.shotAt # NoShot =>
              gameScene'.now - gameScene.shotAt >= FIRE_RATE
        /\ ~localPlayer'.isDead
        /\ ~localPlayer'.isCrouching
        /\ ~gameScene'.menuOpen ]_cvars

\* C33, the second half: no 'shoot' while dead, crouching or in the menu
C33_NoShotWhenBlocked ==
  [][ lastEvent'.type = "shoot" =>
        /\ ~localPlayer'.isDead
        /\ ~localPlayer'.isCrouching
        /\ ~gameScene'.menuOpen ]_cvars

====
